---- MODULE Spec2Model ----
(***************************************************************************)
(* A model of the ai_dev_team entry points (main.py, quick_demo.py,         *)
(* simple_example.py), of the crew assembly (crew.py) and of the sequential *)
(* pipeline executor the crews are handed to.                               *)
(*                                                                          *)
(* Text is a sequence of symbols.  A symbol is a space " ", a comma ",",    *)
(* an ASCII digit "0".."9", the superscript digit "sup2" (U+00B2), or a     *)
(* word: any other string, standing for a run of characters that are none   *)
(* of those ("tech_lead", "bad", "todo").                                   *)
(***************************************************************************)
EXTENDS Integers, Sequences, FiniteSets, TLC

\* ------------------------------------------------------------------ bounds

\* How many processes (script invocations) one behaviour launches.
MaxRuns == 2

\* How many different behaviours of the language model a run may draw.
NumSeeds == 1

\* The driver's counters stop counting here: past every cap of the personas.
MaxIterations == 5

MaxSeconds == 600

\* The longest source text, in characters, the quality analysis is given.
MaxLen == 4

\* ------------------------------------------------------------ text helpers

Range(s) == {s[i] : i \in 1..Len(s)}

AsciiDigits == {"0", "1", "2", "3", "4", "5", "6", "7", "8", "9"}

\* Characters for which str.isdigit() is True and int() raises ValueError.
SuperDigits == {"sup2"}

DigitValue(c) ==
    CASE c = "0" -> 0 [] c = "1" -> 1 [] c = "2" -> 2 [] c = "3" -> 3
      [] c = "4" -> 4 [] c = "5" -> 5 [] c = "6" -> 6 [] c = "7" -> 7
      [] c = "8" -> 8 [] c = "9" -> 9

RECURSIVE lstrip(_)
lstrip(s) == IF s # <<>> /\ Head(s) = " " THEN lstrip(Tail(s)) ELSE s

RECURSIVE rstrip(_)
rstrip(s) ==
    IF s # <<>> /\ s[Len(s)] = " " THEN rstrip(SubSeq(s, 1, Len(s) - 1)) ELSE s

\* A strip that leaves the text as it is.
strip_none(s) == s

\* str.strip()
strip(s) == rstrip(lstrip(s))

\* str.split(','): always at least one item, empty items kept.
RECURSIVE split(_)
split(s) ==
    IF \A i \in 1..Len(s) : s[i] # ","
    THEN <<s>>
    ELSE LET k == CHOOSE i \in 1..Len(s) :
                      s[i] = "," /\ \A j \in 1..(i - 1) : s[j] # ","
         IN  <<SubSeq(s, 1, k - 1)>> \o split(SubSeq(s, k + 1, Len(s)))

\* str.isdigit(): non-empty and every character is a digit character,
\* superscript digits included.
isdigit(s) == s # <<>> /\ \A i \in 1..Len(s) : s[i] \in AsciiDigits \cup SuperDigits

\* int(s) raises ValueError on a superscript digit.
int_raises(s) == \E i \in 1..Len(s) : s[i] \notin AsciiDigits

RECURSIVE int(_)
int(s) ==
    IF s = <<>> THEN 0
    ELSE 10 * int(SubSeq(s, 1, Len(s) - 1)) + DigitValue(s[Len(s)])

\* x in list, for an item x and a list of names.
InList(item, list) == Len(item) = 1 /\ item[1] \in Range(list)

\* ---------------------------------------------------------------- registry

available_agents ==
    << "senior_developer", "frontend_developer", "backend_developer",
       "devops_engineer", "qa_engineer", "tech_lead", "business_analyst",
       "security_specialist", "database_admin", "ui_ux_designer" >>

available_tasks ==
    << "analyze_project", "design_architecture", "develop_backend",
       "develop_frontend", "design_database", "assess_security",
       "create_testing_strategy", "setup_devops", "design_user_experience",
       "review_code" >>

\* ----------------------------------------------------------- parse_selection

\* One iteration of the loop of parse_selection on an item of the split.
parse_item(raw, available_list) ==
    LET item == strip(raw) IN
    IF isdigit(item)
    THEN IF int_raises(item)
         THEN [raised |-> TRUE, selected |-> <<>>]
         ELSE LET idx == int(item) - 1 IN
              IF 0 <= idx /\ idx < Len(available_list)
              THEN [raised |-> FALSE, selected |-> <<available_list[idx + 1]>>]
              ELSE [raised |-> FALSE, selected |-> <<>>]
    ELSE IF InList(item, available_list)
         THEN [raised |-> FALSE, selected |-> <<item[1]>>]
         ELSE [raised |-> FALSE, selected |-> <<>>]

RECURSIVE parse_items(_, _)
parse_items(items, available_list) ==
    IF items = <<>> THEN [raised |-> FALSE, selected |-> <<>>]
    ELSE LET h == parse_item(Head(items), available_list) IN
         IF h.raised THEN h
         ELSE LET t == parse_items(Tail(items), available_list) IN
              [raised |-> t.raised,
               selected |-> IF t.raised THEN <<>> ELSE h.selected \o t.selected]

\* parse_selection(selection, available_list): the selected names, or the
\* ValueError that int() raised.
parse_selection(selection, available_list) ==
    parse_items(split(selection), available_list)

\* ------------------------------------------------------------ crew assembly

\* The persona each @task method binds (agent=self.<persona>()).
task_agent(name) ==
    CASE name = "analyze_project" -> "business_analyst"
      [] name = "design_architecture" -> "tech_lead"
      [] name = "develop_backend" -> "backend_developer"
      [] name = "develop_frontend" -> "frontend_developer"
      [] name = "design_database" -> "database_admin"
      [] name = "assess_security" -> "security_specialist"
      [] name = "create_testing_strategy" -> "qa_engineer"
      [] name = "setup_devops" -> "devops_engineer"
      [] name = "design_user_experience" -> "ui_ux_designer"
      [] name = "review_code" -> "senior_developer"

\* Tasks that all write to one file.
output_file_shared(name) == "output/result.md"

\* The output_file each @task method configures.
output_file(name) ==
    CASE name = "analyze_project" -> "output/project_analysis.md"
      [] name = "design_architecture" -> "output/architecture_design.md"
      [] name = "develop_backend" -> "output/backend_implementation.md"
      [] name = "develop_frontend" -> "output/frontend_implementation.md"
      [] name = "design_database" -> "output/database_design.md"
      [] name = "assess_security" -> "output/security_assessment.md"
      [] name = "create_testing_strategy" -> "output/testing_strategy.md"
      [] name = "setup_devops" -> "output/devops_setup.md"
      [] name = "design_user_experience" -> "output/ux_design.md"
      [] name = "review_code" -> "output/code_review.md"

\* config/tasks.yaml, as create_tasks_config writes it: the agent key of
\* each task.
tasks_config(name) ==
    CASE name = "analyze_project" -> [agent |-> "business_analyst"]
      [] name = "design_architecture" -> [agent |-> "tech_lead"]
      [] name = "develop_backend" -> [agent |-> "backend_developer"]
      [] name = "develop_frontend" -> [agent |-> "frontend_developer"]
      [] name = "design_database" -> [agent |-> "database_admin"]
      [] name = "assess_security" -> [agent |-> "security_specialist"]
      [] name = "create_testing_strategy" -> [agent |-> "qa_engineer"]
      [] name = "setup_devops" -> [agent |-> "devops_engineer"]
      [] name = "design_user_experience" -> [agent |-> "ui_ux_designer"]
      [] name = "review_code" -> [agent |-> "senior_developer"]

\* A task whose definition leaves output_file out.
Task_no_output(name) ==
    [name |-> name, agent |-> task_agent(name), outputs |-> {}]

\* A Task: its name, its persona and its destination files (none or one).
Task(name) ==
    [name |-> name, agent |-> task_agent(name), outputs |-> {output_file(name)}]

Tasks(names) == [i \in 1..Len(names) |-> Task(names[i])]

\* The crew handed to a process that does not wait for a step to finish.
crew_parallel ==
    [agents |-> available_agents,
     tasks |-> Tasks(available_tasks),
     process |-> "hierarchical",
     memory |-> TRUE]

\* AiDevTeamCrew.crew(): every persona, every task in the order of the @task
\* methods, run sequentially, with the framework's memory switched on.
crew ==
    [agents |-> available_agents,
     tasks |-> Tasks(available_tasks),
     process |-> "sequential",
     memory |-> TRUE]

\* The keys of agent_map and of task_map in create_custom_crew.
agent_map(name) == name \in Range(available_agents)

task_map(name) == name \in Range(available_tasks)

\* A custom crew whose tasks are put back in the order of the full pipeline.
create_custom_crew_canonical(agents_list, tasks_list) ==
    [agents |-> SelectSeq(agents_list, agent_map),
     tasks |-> Tasks(SelectSeq(available_tasks,
                               LAMBDA n : n \in Range(tasks_list))),
     process |-> "sequential",
     memory |-> TRUE]

\* A custom crew that hands every selected task to the first selected agent.
create_custom_crew_rebound(agents_list, tasks_list) ==
    LET agents == SelectSeq(agents_list, agent_map)
        tasks == Tasks(SelectSeq(tasks_list, task_map))
    IN  [agents |-> agents,
         tasks |-> [i \in 1..Len(tasks) |->
                       [tasks[i] EXCEPT !.agent = IF agents = <<>> THEN @
                                                  ELSE agents[1]]],
         process |-> "sequential",
         memory |-> TRUE]

\* AiDevTeamCrew.create_custom_crew(agents_list, tasks_list): the named
\* personas and tasks, each list in the order it was given.
create_custom_crew(agents_list, tasks_list) ==
    [agents |-> SelectSeq(agents_list, agent_map),
     tasks |-> Tasks(SelectSeq(tasks_list, task_map)),
     process |-> "sequential",
     memory |-> TRUE]

\* quick_demo.py: two personas, two tasks without output_file.
demo_crew ==
    [agents |-> <<"Business Analyst", "Senior Developer">>,
     tasks |-> << [name |-> "analysis_task", agent |-> "Business Analyst",
                   outputs |-> {}],
                  [name |-> "development_task", agent |-> "Senior Developer",
                   outputs |-> {}] >>,
     process |-> "sequential",
     memory |-> FALSE]

\* No crew built (yet).
no_crew == [agents |-> <<>>, tasks |-> <<>>, process |-> "sequential", memory |-> FALSE]

\* ------------------------------------------------------------------- inputs

\* Project descriptions a user may type: empty, blank, and two real ones.
Descriptions == { <<>>, <<" ">>, <<"todo">>, <<"blog", " ", "api">> }

\* Agent selections a user may type.
AgentSelectionInputs ==
    { <<>>,
      <<"bad">>,
      <<"sup2">>,
      <<"1", ",", "bad", ",", "tech_lead">> }

\* Task selections a user may type.
TaskSelectionInputs ==
    { <<" ">>,
      <<"0">>,
      <<"1", "1">>,
      <<"1">>,
      <<"3", ",", "1">>,
      <<"1", ",", "sup2">>,
      <<"1", "0", ",", "bad", ",", ",", " ", "review_code">> }

\* The behaviours of the reasoning model a run may meet: 0 is a stub persona,
\* a fixed function of the prompt; 1..NumSeeds are samples of the model.
Seeds == 0..NumSeeds

\* -------------------------------------------------------------------- state

VARIABLES
    proc,               \* the script of the current (or last) process
    pc,                 \* "idle", "kickoff" (inside crew.kickoff) or "exited"
    exit_code,          \* the exit code, once pc = "exited"
    uncaught,           \* the process died of an exception nothing caught
    runs,               \* processes launched so far
    description,        \* project_description of the process
    seed,               \* the reasoning model's behaviour in this process
    agent_selection,    \* run_custom_workflow: what the user typed (stripped)
    task_selection,
    selected_agents,    \* run_custom_workflow: parse_selection's results
    selected_tasks,
    the_crew,           \* the Crew the process built
    state,              \* executor: "Idle", "Running", "Completed", "Failed"
    step_index,         \* executor: i of Running(i) / Failed(i), from 1
    inflight,           \* executor: steps whose reasoning invocation is in flight
    prompt,             \* executor: the prompt of the step last started
    context,            \* executor: the shared context
    result,             \* executor: the last artifact
    files,              \* the files under output/: path -> content
    started,            \* history: the steps started in this process, in order
    artifacts,          \* history: the artifacts produced in this process
    files0,             \* history: the files when the process was launched
    last_run,           \* history: the last full pipeline run that completed
                        \* before the current process was launched
    error,              \* history: the exception raised in the process, if any
    iterations,         \* driver: reasoning iterations of the invocation in flight
    elapsed,            \* driver: seconds the invocation in flight has taken
    heartbeat,          \* driver: flips with every reasoning iteration
    disk,               \* tool adapters: the working directory, path -> node
    call,               \* tool adapters: the last call, its arguments
    outcome,            \* tool adapters: what the last call returned or raised
    subprocs,           \* tool adapters: subprocesses the last call ran
    requests,           \* tool adapters: network requests the last call made
    disk0,              \* history: the working directory before the last call
    peer,               \* the other process of the team, while it is not
                        \* the one the scheduler runs
    setup               \* setup_dev_team.py: the setup process and the
                        \* project directory it generates

\* The entry points and the pipeline executor.
pipeline_vars ==
    << proc, pc, exit_code, uncaught, runs, description, seed, agent_selection,
       task_selection, selected_agents, selected_tasks, the_crew, state,
       step_index, inflight, prompt, context, result, files, started,
       artifacts, files0, last_run, error >>

\* The reasoning driver of the invocation in flight.
driver_vars == << iterations, elapsed, heartbeat >>

\* The tool adapters.
tool_vars == << disk, call, outcome, subprocs, requests, disk0 >>

vars == << pipeline_vars, driver_vars, tool_vars, peer, setup >>

no_prompt == [task |-> "", agent |-> "", description |-> <<>>, context |-> <<>>]

\* An empty output directory.
no_files == [p \in {} |-> <<>>]

no_run == [done |-> FALSE, seed |-> 0, description |-> <<>>, files |-> no_files]

\* An optional argument: None, or the value that was passed.
None == <<>>

Some(v) == <<v>>

\* What the environment does to a call: whether the operating system refuses
\* the underlying operation (or the program to run is missing), whether the
\* subprocess ends with return code 0, what the network answers to each
\* request, and the cleaned text of the page.
Env(fault, ok, responses, page) ==
    [fault |-> fault, ok |-> ok, responses |-> responses, page |-> page]

no_env == Env(FALSE, TRUE, <<>>, <<>>)

\* A tool-adapter call: the adapter, the arguments of its _run, and what the
\* environment does to it.
Call(tool, operation, path, content, destination, message, branch, remote_url, language, query, url, env) ==
    [tool |-> tool, operation |-> operation, path |-> path,
     content |-> content, destination |-> destination, message |-> message,
     branch |-> branch, remote_url |-> remote_url, language |-> language,
     query |-> query, url |-> url, env |-> env]

no_call == Call("", "", "", None, None, None, None, None, "", <<>>, None, no_env)

\* What a call came to: the string it returned, or the exception it raised.
no_outcome == [raised |-> FALSE, value |-> <<>>]

\* A process that has not been started.
no_process ==
    [proc |-> "none", pc |-> "idle", exit_code |-> 0, uncaught |-> FALSE,
     description |-> <<>>, seed |-> 0, agent_selection |-> <<>>,
     task_selection |-> <<>>, selected_agents |-> <<>>,
     selected_tasks |-> <<>>, the_crew |-> no_crew, state |-> "Idle",
     step_index |-> 0, inflight |-> {}, prompt |-> no_prompt,
     context |-> <<>>, result |-> <<>>, started |-> <<>>, artifacts |-> <<>>,
     files0 |-> no_files, last_run |-> no_run, error |-> "none",
     iterations |-> 0, elapsed |-> 0, heartbeat |-> FALSE]

\* A project directory that does not exist.
no_project == [exists |-> FALSE, nodes |-> [p \in {} |-> ""]]

\* No setup has run and there is no project directory.
no_setup ==
    [pc |-> "idle", exit_code |-> 0, existed |-> FALSE, response |-> None,
     ran |-> <<>>, tree |-> no_project, tree0 |-> no_project]

Init ==
    /\ setup = no_setup
    /\ peer = no_process
    /\ proc = "none"
    /\ pc = "idle"
    /\ exit_code = 0
    /\ uncaught = FALSE
    /\ runs = 0
    /\ description = <<>>
    /\ seed = 0
    /\ agent_selection = <<>>
    /\ task_selection = <<>>
    /\ selected_agents = <<>>
    /\ selected_tasks = <<>>
    /\ the_crew = no_crew
    /\ state = "Idle"
    /\ step_index = 0
    /\ inflight = {}
    /\ prompt = no_prompt
    /\ context = <<>>
    /\ result = <<>>
    /\ files = no_files
    /\ started = <<>>
    /\ artifacts = <<>>
    /\ files0 = no_files
    /\ last_run = no_run
    /\ error = "none"
    /\ iterations = 0
    /\ elapsed = 0
    /\ heartbeat = FALSE
    /\ disk = no_files
    /\ call = no_call
    /\ outcome = no_outcome
    /\ subprocs = 0
    /\ requests = 0
    /\ disk0 = no_files

\* ------------------------------------------------------------ file system

\* open(path, "w").write(text): the file is created or truncated.
write_file(fs, path, text) ==
    [p \in DOMAIN fs \cup {path} |-> IF p = path THEN text ELSE fs[p]]

\* An output directory that is emptied when the run starts.
mkdir_clean(fs) == no_files

\* Path("output").mkdir(exist_ok=True) on the existing output directory:
\* whatever it holds stays.
mkdir_exist_ok(fs) == fs

\* The lines of a text file that holds a description.
Lines(text) == [i \in 1..Len(text) |-> <<"text", text[i], 0>>]

\* ----------------------------------------------------------------- executor

\* The prompt of a step: its template (the task and its persona), the input
\* variable and the prior artifacts.
Render(task, project_description, ctx) ==
    [task |-> task.name, agent |-> task.agent,
     description |-> project_description, context |-> ctx]

\* The stub persona: a fixed function of the prompt.
Stub(p) ==
    << <<"OK", p.task, Len(p.description) + Len(p.context)>> >>

\* The artifact of a reasoning invocation that succeeds.
Reason(p, s) == IF s = 0 THEN Stub(p) ELSE << <<"artifact", p.task, s>> >>

\* Whether the executor may start step i now.
MayStart(i) ==
    IF the_crew.process = "sequential"
    THEN inflight = {} /\ i = step_index
    ELSE TRUE

\* A kickoff that keeps the context the executor was left with.
Kickoff_stale(c) ==
    /\ the_crew' = c
    /\ state' = "Running"
    /\ step_index' = 1
    /\ inflight' = {}
    /\ prompt' = no_prompt
    /\ context' = context
    /\ result' = <<>>
    /\ started' = <<>>
    /\ artifacts' = <<>>

\* crew.kickoff(inputs): Idle -> Running(first step), with an empty context.
Kickoff(c) ==
    /\ the_crew' = c
    /\ state' = "Running"
    /\ step_index' = 1
    /\ inflight' = {}
    /\ prompt' = no_prompt
    /\ context' = <<>>
    /\ result' = <<>>
    /\ started' = <<>>
    /\ artifacts' = <<>>

\* A process that never reaches kickoff.
NoKickoff ==
    /\ the_crew' = no_crew
    /\ state' = "Idle"
    /\ step_index' = 0
    /\ inflight' = {}
    /\ prompt' = no_prompt
    /\ context' = <<>>
    /\ result' = <<>>
    /\ started' = <<>>
    /\ artifacts' = <<>>

\* Persisting that appends to a destination file that exists.
Persist_append(fs, task, artifact) ==
    [p \in DOMAIN fs \cup task.outputs |->
        IF p \in task.outputs
        THEN (IF p \in DOMAIN fs THEN fs[p] ELSE <<>>) \o artifact
        ELSE fs[p]]

\* Persisting that leaves a destination file alone when it exists (an
\* exclusive create).
Persist_exclusive(fs, task, artifact) ==
    [p \in DOMAIN fs \cup task.outputs |->
        IF p \in task.outputs /\ p \notin DOMAIN fs THEN artifact ELSE fs[p]]

\* Persisting an artifact to the destination files of a task.
Persist(fs, task, artifact) ==
    [p \in DOMAIN fs \cup task.outputs |->
        IF p \in task.outputs THEN artifact ELSE fs[p]]

\* Personas without an iteration cap and without a wall-clock cap.
agents_config_unlimited(agent) ==
    [limited |-> FALSE, max_iter |-> 0, max_execution_time |-> 0]

\* The resource limits of a persona: max_iter and max_execution_time of
\* config/agents.yaml for the agents of the team, of the Agent(...) calls
\* for the two agents of the quick demo and the one of the simple example.
agents_config(agent) ==
    IF agent \in {"Business Analyst", "Senior Developer"}
    THEN [limited |-> TRUE, max_iter |-> 2, max_execution_time |-> 60]
    ELSE IF agent = "Technical Analyst"
    THEN [limited |-> TRUE, max_iter |-> 1, max_execution_time |-> 30]
    ELSE [limited |-> TRUE, max_iter |-> 3, max_execution_time |-> 300]

\* The seconds one reasoning iteration, its tool calls included, may take.
IterationSeconds == {50, 200}

\* The invocation in flight has exceeded a cap of its persona.
Exceeded ==
    LET cap == agents_config(prompt.agent)
    IN  /\ cap.limited
        /\ \/ iterations > cap.max_iter
           \/ elapsed > cap.max_execution_time

\* The reasoning driver runs one more iteration of the invocation in flight;
\* between iterations it checks the caps (the timeout is cooperative).
Iterate ==
    /\ pc = "kickoff"
    /\ state = "Running"
    /\ step_index \in inflight
    /\ ~Exceeded
    /\ iterations' = IF iterations < MaxIterations THEN iterations + 1
                      ELSE iterations
    /\ \E d \in IterationSeconds :
          elapsed' = IF elapsed + d < MaxSeconds THEN elapsed + d
                     ELSE MaxSeconds
    /\ heartbeat' = ~heartbeat
    /\ UNCHANGED << pipeline_vars, tool_vars, peer, setup >>

\* Running(i): render the prompt of step i and invoke its persona.
StepStart ==
    /\ UNCHANGED << heartbeat, tool_vars, peer, setup >>
    /\ iterations' = 0
    /\ elapsed' = 0
    /\ pc = "kickoff"
    /\ state = "Running"
    /\ LET i == Len(started) + 1 IN
       /\ i <= Len(the_crew.tasks)
       /\ MayStart(i)
       /\ started' = Append(started, i)
       /\ inflight' = inflight \cup {i}
       /\ prompt' = Render(the_crew.tasks[i], description, context)
    /\ UNCHANGED << proc, pc, exit_code, uncaught, runs, description, seed,
                    agent_selection, task_selection, selected_agents,
                    selected_tasks, the_crew, state, step_index, context,
                    result, files, artifacts, files0, last_run, error >>

\* The invocation of step i returns an artifact: persist it, append it to the
\* context, advance to Running(i + 1) or to Completed.
StepSucceed ==
    /\ UNCHANGED << driver_vars, tool_vars, peer, setup >>
    /\ pc = "kickoff"
    /\ state = "Running"
    /\ step_index \in inflight
    /\ ~Exceeded
    /\ LET artifact == Reason(prompt, seed) IN
       /\ files' = Persist(files, the_crew.tasks[step_index], artifact)
       /\ context' = context \o artifact
       /\ artifacts' = Append(artifacts, artifact)
       /\ result' = artifact
    /\ inflight' = inflight \ {step_index}
    /\ IF step_index = Len(the_crew.tasks)
       THEN state' = "Completed" /\ step_index' = step_index
       ELSE state' = "Running" /\ step_index' = step_index + 1
    /\ UNCHANGED << proc, pc, exit_code, uncaught, runs, description, seed,
                    agent_selection, task_selection, selected_agents,
                    selected_tasks, the_crew, prompt, started, files0,
                    last_run, error >>

\* The invocation of step i raises, times out or exceeds its iteration
\* budget: Running(i) -> Failed(i).
StepFail ==
    /\ UNCHANGED << driver_vars, tool_vars, peer, setup >>
    /\ pc = "kickoff"
    /\ state = "Running"
    /\ step_index \in inflight
    /\ state' = "Failed"
    /\ inflight' = {}
    /\ error' = "StepExecutionError"
    /\ UNCHANGED << proc, pc, exit_code, uncaught, runs, description, seed,
                    agent_selection, task_selection, selected_agents,
                    selected_tasks, the_crew, step_index, prompt, context,
                    result, files, started, artifacts, files0, last_run >>

\* ------------------------------------------------------------- entry points

\* A script is started from the shell, in a process of its own.
Launch(script) ==
    /\ pc \in {"idle", "exited"}
    /\ runs < MaxRuns
    /\ runs' = runs + 1
    /\ proc' = script
    /\ files0' = files
    /\ last_run' = IF proc = "main" /\ state = "Completed"
                   THEN [done |-> TRUE, seed |-> seed,
                         description |-> description, files |-> files]
                   ELSE last_run

\* sys.exit(code), or the end of the script (code 0).
Exit(code) ==
    /\ pc' = "exited"
    /\ exit_code' = code
    /\ uncaught' = FALSE

\* An exception nothing catches: the interpreter prints the traceback and
\* the process ends with code 1.
Traceback ==
    /\ pc' = "exited"
    /\ exit_code' = 1
    /\ uncaught' = TRUE

NoSelection ==
    /\ agent_selection' = <<>>
    /\ task_selection' = <<>>
    /\ selected_agents' = <<>>
    /\ selected_tasks' = <<>>

\* main(), up to and into crew.kickoff(inputs).
main ==
    /\ UNCHANGED << driver_vars, tool_vars, peer, setup >>
    /\ Launch("main")
    /\ NoSelection
    /\ \E project_description \in Descriptions :
          /\ description' = project_description
          /\ \/ /\ strip(project_description) = <<>>
                /\ Exit(1)
                /\ error' = "none"
                /\ seed' = 0
                /\ NoKickoff
                /\ files' = files
             \/ /\ strip(project_description) # <<>>
                /\ files' = mkdir_exist_ok(files)
                /\ \/ /\ Exit(1)          \* AiDevTeamCrew() or crew() raises
                      /\ error' = "ConfigurationError"
                      /\ seed' = 0
                      /\ NoKickoff
                   \/ /\ pc' = "kickoff"
                      /\ error' = "none"
                      /\ UNCHANGED << exit_code, uncaught >>
                      /\ \E s \in Seeds : seed' = s
                      /\ Kickoff(crew)

\* main(), after kickoff returned: the summary is printed, main returns and
\* the script ends.
main_return ==
    /\ UNCHANGED << driver_vars, tool_vars, peer, setup >>
    /\ proc = "main"
    /\ pc = "kickoff"
    /\ state = "Completed"
    /\ Exit(0)
    /\ UNCHANGED << proc, runs, description, seed, agent_selection,
                    task_selection, selected_agents, selected_tasks, the_crew,
                    state, step_index, inflight, prompt, context, result,
                    files, started, artifacts, files0, last_run, error >>

\* An except clause that starts the crew again.
main_except_retry ==
    /\ UNCHANGED << driver_vars, tool_vars, peer, setup >>
    /\ proc = "main"
    /\ pc = "kickoff"
    /\ state = "Failed"
    /\ Kickoff(the_crew)
    /\ UNCHANGED << proc, pc, exit_code, uncaught, runs, description, seed,
                    agent_selection, task_selection, selected_agents,
                    selected_tasks, files, files0, last_run, error >>

\* main(): except Exception -> print, sys.exit(1).
main_except ==
    /\ UNCHANGED << driver_vars, tool_vars, peer, setup >>
    /\ proc = "main"
    /\ pc = "kickoff"
    /\ state = "Failed"
    /\ Exit(1)
    /\ UNCHANGED << proc, runs, description, seed, agent_selection,
                    task_selection, selected_agents, selected_tasks, the_crew,
                    state, step_index, inflight, prompt, context, result,
                    files, started, artifacts, files0, last_run, error >>

\* run_custom_workflow(), up to and into custom_crew.kickoff(inputs).
run_custom_workflow ==
    /\ UNCHANGED << driver_vars, tool_vars, peer, setup >>
    /\ Launch("run_custom_workflow")
    /\ UNCHANGED files
    /\ \E a_in \in AgentSelectionInputs, t_in \in TaskSelectionInputs,
          d_in \in Descriptions :
          LET a_sel == strip(a_in)
              t_sel == strip(t_in)
              project_description == strip(d_in)
              pa == parse_selection(a_sel, available_agents)
              pt == parse_selection(t_sel, available_tasks)
          IN
          /\ agent_selection' = a_sel
          /\ task_selection' = t_sel
          /\ description' = project_description
          /\ \/ /\ <<>> \in {a_sel, t_sel, project_description}
                /\ Exit(1)                \* "All fields are required!"
                /\ error' = "none"
                /\ selected_agents' = <<>>
                /\ selected_tasks' = <<>>
                /\ seed' = 0
                /\ NoKickoff
             \/ /\ <<>> \notin {a_sel, t_sel, project_description}
                /\ pa.raised \/ pt.raised
                /\ Traceback              \* int(item) raised ValueError
                /\ error' = "ValueError"
                /\ selected_agents' = pa.selected
                /\ selected_tasks' = <<>>
                /\ seed' = 0
                /\ NoKickoff
             \/ /\ <<>> \notin {a_sel, t_sel, project_description}
                /\ ~pa.raised /\ ~pt.raised
                /\ selected_agents' = pa.selected
                /\ selected_tasks' = pt.selected
                /\ \/ /\ pa.selected = <<>> \/ pt.selected = <<>>
                      /\ Exit(1)          \* "Invalid agent or task selection!"
                      /\ error' = "none"
                      /\ seed' = 0
                      /\ NoKickoff
                   \/ /\ pa.selected # <<>> /\ pt.selected # <<>>
                      /\ \/ /\ Exit(1)    \* construction raises
                            /\ error' = "ConfigurationError"
                            /\ seed' = 0
                            /\ NoKickoff
                         \/ /\ pc' = "kickoff"
                            /\ error' = "none"
                            /\ UNCHANGED << exit_code, uncaught >>
                            /\ \E s \in Seeds : seed' = s
                            /\ Kickoff(create_custom_crew(pa.selected,
                                                          pt.selected))

\* run_custom_workflow(), after kickoff returned.
custom_return ==
    /\ UNCHANGED << driver_vars, tool_vars, peer, setup >>
    /\ proc = "run_custom_workflow"
    /\ pc = "kickoff"
    /\ state = "Completed"
    /\ Exit(0)
    /\ UNCHANGED << proc, runs, description, seed, agent_selection,
                    task_selection, selected_agents, selected_tasks, the_crew,
                    state, step_index, inflight, prompt, context, result,
                    files, started, artifacts, files0, last_run, error >>

\* run_custom_workflow(): except Exception -> print, sys.exit(1).
custom_except ==
    /\ UNCHANGED << driver_vars, tool_vars, peer, setup >>
    /\ proc = "run_custom_workflow"
    /\ pc = "kickoff"
    /\ state = "Failed"
    /\ Exit(1)
    /\ UNCHANGED << proc, runs, description, seed, agent_selection,
                    task_selection, selected_agents, selected_tasks, the_crew,
                    state, step_index, inflight, prompt, context, result,
                    files, started, artifacts, files0, last_run, error >>

\* quick_demo.py: create_simple_demo(), up to and into crew.kickoff().  The
\* description is used as typed, empty or not.
create_simple_demo ==
    /\ UNCHANGED << driver_vars, tool_vars, peer, setup >>
    /\ Launch("quick_demo")
    /\ NoSelection
    /\ UNCHANGED files
    /\ \/ /\ Exit(1)                      \* LLM(...) or Agent(...) raises:
          /\ description' = <<>>          \* caught by __main__, sys.exit(1)
          /\ error' = "ConfigurationError"
          /\ seed' = 0
          /\ NoKickoff
       \/ /\ \E project_description \in Descriptions :
                description' = project_description
          /\ pc' = "kickoff"
          /\ error' = "none"
          /\ UNCHANGED << exit_code, uncaught >>
          /\ \E s \in Seeds : seed' = s
          /\ Kickoff(demo_crew)

\* quick_demo.py: the result is saved under a title and the project line,
\* create_simple_demo returns and the script ends.
demo_save ==
    /\ UNCHANGED << driver_vars, tool_vars, peer, setup >>
    /\ proc = "quick_demo"
    /\ pc = "kickoff"
    /\ state = "Completed"
    /\ files' = write_file(files, "output/quick_demo_result.md",
                           <<<<"text", "# Quick Demo Results", 0>>>>
                           \o Lines(description) \o result)
    /\ Exit(0)
    /\ UNCHANGED << proc, runs, description, seed, agent_selection,
                    task_selection, selected_agents, selected_tasks, the_crew,
                    state, step_index, inflight, prompt, context, result,
                    started, artifacts, files0, last_run, error >>

\* quick_demo.py, __main__: except Exception -> print, sys.exit(1).
demo_except ==
    /\ UNCHANGED << driver_vars, tool_vars, peer, setup >>
    /\ proc = "quick_demo"
    /\ pc = "kickoff"
    /\ state = "Failed"
    /\ Exit(1)
    /\ UNCHANGED << proc, runs, description, seed, agent_selection,
                    task_selection, selected_agents, selected_tasks, the_crew,
                    state, step_index, inflight, prompt, context, result,
                    files, started, artifacts, files0, last_run, error >>

\* The project simple_example.py analyses.
simple_project == <<"todo", " ", "api">>

\* simple_example.py: one persona executes one task, outside any crew; the
\* result is saved under a title.  __main__ catches an exception, prints it
\* and lets the script end.
simple_analysis_example ==
    /\ UNCHANGED << driver_vars, tool_vars, peer, setup >>
    /\ Launch("simple_example")
    /\ NoSelection
    /\ NoKickoff
    /\ description' = simple_project
    /\ pc' = "exited"
    /\ exit_code' = 0
    /\ \/ /\ uncaught' = FALSE            \* execute_task returns
          /\ error' = "none"
          /\ \E s \in Seeds :
                /\ seed' = s
                /\ files' = write_file(files, "output/simple_analysis.md",
                      <<<<"text", "# Technical Analysis", 0>>>>
                      \o Lines(simple_project)
                      \o Reason(Render([name |-> "task",
                                        agent |-> "Technical Analyst"],
                                       simple_project, <<>>), s))
       \/ /\ uncaught' = FALSE            \* execute_task raises: except, print
          /\ error' = "StepExecutionError"
          /\ seed' = 0
          /\ files' = files

\* Two processes of the team run at once: the operating system takes the
\* processor from one and gives it to the other.  What a process owns (its
\* variables, its crew, its executor) goes with it; the output directory and
\* the count of the processes launched are shared.
Switch ==
    /\ peer' = [proc |-> proc, pc |-> pc, exit_code |-> exit_code,
                uncaught |-> uncaught, description |-> description,
                seed |-> seed, agent_selection |-> agent_selection,
                task_selection |-> task_selection,
                selected_agents |-> selected_agents,
                selected_tasks |-> selected_tasks, the_crew |-> the_crew,
                state |-> state, step_index |-> step_index,
                inflight |-> inflight, prompt |-> prompt, context |-> context,
                result |-> result, started |-> started,
                artifacts |-> artifacts, files0 |-> files0,
                last_run |-> last_run, error |-> error,
                iterations |-> iterations, elapsed |-> elapsed,
                heartbeat |-> heartbeat]
    /\ proc' = peer.proc
    /\ pc' = peer.pc
    /\ exit_code' = peer.exit_code
    /\ uncaught' = peer.uncaught
    /\ description' = peer.description
    /\ seed' = peer.seed
    /\ agent_selection' = peer.agent_selection
    /\ task_selection' = peer.task_selection
    /\ selected_agents' = peer.selected_agents
    /\ selected_tasks' = peer.selected_tasks
    /\ the_crew' = peer.the_crew
    /\ state' = peer.state
    /\ step_index' = peer.step_index
    /\ inflight' = peer.inflight
    /\ prompt' = peer.prompt
    /\ context' = peer.context
    /\ result' = peer.result
    /\ started' = peer.started
    /\ artifacts' = peer.artifacts
    /\ files0' = peer.files0
    /\ last_run' = peer.last_run
    /\ error' = peer.error
    /\ iterations' = peer.iterations
    /\ elapsed' = peer.elapsed
    /\ heartbeat' = peer.heartbeat
    /\ UNCHANGED << runs, files, tool_vars, setup >>

\* ----------------------------------------------------------- setup script

\* str.lower() on what the user may type.
lower(text) ==
    [i \in 1..Len(text) |->
        IF text[i] = "Y" THEN "y" ELSE IF text[i] = "N" THEN "n" ELSE text[i]]

\* A prompt that takes every answer for a yes.
cancelled_never(response) == FALSE

\* create_project_structure: if response.lower() != 'y'
cancelled(response) == lower(response) # <<"y">>

\* What the user may answer to "Do you want to overwrite it? (y/N): ".
Answers ==
    { <<>>, <<"y">>, <<"Y">>, <<"n">>, <<"N">>, <<"y", "e", "s">>,
      <<" ", "y">>, <<"y", " ">> }

\* The directories create_project_structure makes.
directories ==
    { "src/ai_dev_team", "src/ai_dev_team/config", "src/ai_dev_team/tools",
      "src/ai_dev_team/crews", "src/ai_dev_team/flows", "templates",
      "examples", "docs", "output" }

\* The steps of run_setup after create_project_structure, in order, and a
\* file each of them writes.
generation ==
    << [step |-> "create_configuration_files", file |-> ".env"],
       [step |-> "create_agents_config",
        file |-> "src/ai_dev_team/config/agents.yaml"],
       [step |-> "create_tasks_config",
        file |-> "src/ai_dev_team/config/tasks.yaml"],
       [step |-> "create_development_tools",
        file |-> "src/ai_dev_team/tools/__init__.py"],
       [step |-> "create_main_crew_file", file |-> "src/ai_dev_team/crew.py"],
       [step |-> "create_main_script", file |-> "src/ai_dev_team/main.py"],
       [step |-> "create_examples_and_templates", file |-> "README.md"],
       [step |-> "create_startup_script", file |-> "start.sh"] >>

\* shutil.rmtree(project_dir), then mkdir(parents=True, exist_ok=True) of
\* each directory.
fresh_project == [exists |-> TRUE, nodes |-> [p \in directories |-> "dir"]]

\* open(path, "w").write(...) in the project directory.
write_project(tree, path, tag) ==
    [exists |-> tree.exists,
     nodes |-> [p \in DOMAIN tree.nodes \cup {path} |->
                   IF p = path THEN tag ELSE tree.nodes[p]]]

\* sys.exit(1), or an exception that run_setup turns into sys.exit(1).
setup_exit(code, ran) ==
    [setup EXCEPT !.pc = "exited", !.exit_code = code, !.ran = ran]

\* run_setup, up to create_project_structure: the banner, the check of the
\* system requirements and the installation of Ollama and of its models.
\* None of them touches the project directory.
run_setup ==
    /\ setup.pc \in {"idle", "exited"}
    /\ runs < MaxRuns
    /\ runs' = runs + 1
    /\ LET begun == [setup EXCEPT !.existed = FALSE, !.response = None,
                                  !.tree0 = setup.tree, !.exit_code = 0]
       IN
       \/ setup' = [begun EXCEPT !.pc = "exited", !.exit_code = 1,
                       !.ran = <<"print_banner", "check_system_requirements">>]
       \/ setup' = [begun EXCEPT !.pc = "exited", !.exit_code = 1,
                       !.ran = <<"print_banner", "check_system_requirements",
                                 "install_ollama">>]
       \/ setup' = [begun EXCEPT !.pc = "exited", !.exit_code = 1,
                       !.ran = <<"print_banner", "check_system_requirements",
                                 "install_ollama", "setup_ollama_models">>]
       \/ setup' = [begun EXCEPT !.pc = "checked",
                       !.ran = <<"print_banner", "check_system_requirements",
                                 "install_ollama", "setup_ollama_models">>]
    /\ UNCHANGED << proc, pc, exit_code, uncaught, description, seed,
                    agent_selection, task_selection, selected_agents,
                    selected_tasks, the_crew, state, step_index, inflight,
                    prompt, context, result, files, started, artifacts,
                    files0, last_run, error, driver_vars, tool_vars, peer >>

\* create_project_structure: ask before an existing project directory is
\* removed, then make the directories.  input() may also raise (EOFError,
\* KeyboardInterrupt) and rmtree or mkdir may fail: run_setup exits with 1.
create_project_structure ==
    /\ setup.pc = "checked"
    /\ LET ran == Append(setup.ran, "create_project_structure") IN
       IF setup.tree.exists
       THEN \/ \E response \in Answers :
                 IF cancelled(response)
                 THEN setup' = [setup_exit(1, ran) EXCEPT
                                   !.existed = TRUE,
                                   !.response = Some(response)]
                 ELSE \/ setup' = [setup EXCEPT
                                      !.pc = "structured", !.ran = ran,
                                      !.existed = TRUE,
                                      !.response = Some(response),
                                      !.tree = fresh_project]
                      \/ setup' = [setup_exit(1, ran) EXCEPT
                                      !.existed = TRUE,
                                      !.response = Some(response),
                                      !.tree = no_project]
            \/ setup' = [setup_exit(1, ran) EXCEPT !.existed = TRUE]
       ELSE \/ setup' = [setup EXCEPT !.pc = "structured", !.ran = ran,
                                      !.tree = fresh_project]
            \/ setup' = setup_exit(1, ran)
    /\ UNCHANGED << pipeline_vars, driver_vars, tool_vars, peer >>

\* The generation steps done so far in this setup.
generated == Len(setup.ran) - 5

\* The next generation step of run_setup writes its files, or fails on one.
generate ==
    /\ setup.pc = "structured"
    /\ generated < Len(generation)
    /\ LET g == generation[generated + 1]
           ran == Append(setup.ran, g.step)
       IN  \/ setup' = [setup EXCEPT
                           !.ran = ran,
                           !.tree = write_project(setup.tree, g.file,
                                                  "generated")]
           \/ setup' = setup_exit(1, ran)
    /\ UNCHANGED << pipeline_vars, driver_vars, tool_vars, peer >>

\* install_dependencies (a failing pip is a warning), the success message,
\* and the end of the script.
install_dependencies ==
    /\ setup.pc = "structured"
    /\ generated = Len(generation)
    /\ setup' = setup_exit(0, Append(setup.ran, "install_dependencies"))
    /\ UNCHANGED << pipeline_vars, driver_vars, tool_vars, peer >>

\* Between two setups, when the setup process is gone, the project is used:
\* a run of the team leaves an artifact in its output directory.
leave_artifact ==
    /\ setup.pc = "exited"
    /\ setup.tree.exists
    /\ \E name \in {"analyze_project", "review_code"} :
          LET tree == write_project(setup.tree, output_file(name), "artifact")
          IN  setup' = [no_setup EXCEPT !.tree = tree, !.tree0 = tree]
    /\ UNCHANGED << pipeline_vars, driver_vars, tool_vars, peer >>

\* ------------------------------------------------------------ tool adapters

\* The paths the adapters are called with, relative to the working
\* directory "."; the working directory is a directory that exists.
Paths == {"f", "d", "d/f"}

\* Path.parent
Parent(p) == IF p = "d/f" THEN "d" ELSE "."

\* Path.name
Name(p) == IF p = "d/f" THEN "f" ELSE p

Children(p) == {q \in Paths : Parent(q) = p}

File(bytes) == [kind |-> "file", bytes |-> bytes]

Dir == [kind |-> "dir", bytes |-> <<>>]

\* Path.exists()
exists(fs, p) == p = "." \/ p \in DOMAIN fs

\* Path.is_dir()
is_dir(fs, p) == p = "." \/ (p \in DOMAIN fs /\ fs[p].kind = "dir")

Put(fs, p, node) == [q \in DOMAIN fs \cup {p} |-> IF q = p THEN node ELSE fs[q]]

\* An unlink that removes nothing.
Remove_nothing(fs, ps) == fs

\* Path.unlink(), shutil.rmtree(): the paths ps are gone.
Remove(fs, ps) == [q \in DOMAIN fs \ ps |-> fs[q]]

\* What a function body comes to: the string it returns or the exception it
\* raises, the working directory it leaves, and the subprocesses and network
\* requests it made.
Return(value, fs, sub, req) ==
    [raised |-> FALSE, value |-> value, fs |-> fs, subprocs |-> sub,
     requests |-> req]

Raise(exc, fs, sub, req) ==
    [raised |-> TRUE, value |-> <<exc>>, fs |-> fs, subprocs |-> sub,
     requests |-> req]

\* Path.mkdir(parents=True, exist_ok=True)
mkdir_parents(fs, p) ==
    IF is_dir(fs, p) THEN [raised |-> FALSE, exc |-> "", fs |-> fs]
    ELSE IF exists(fs, p)
         THEN [raised |-> TRUE, exc |-> "FileExistsError", fs |-> fs]
    ELSE IF is_dir(fs, Parent(p))
         THEN [raised |-> FALSE, exc |-> "", fs |-> Put(fs, p, Dir)]
    ELSE IF exists(fs, Parent(p))
         THEN [raised |-> TRUE, exc |-> "NotADirectoryError", fs |-> fs]
    ELSE [raised |-> FALSE, exc |-> "",
          fs |-> Put(Put(fs, Parent(p), Dir), p, Dir)]

\* os.linesep
linesep == <<"LF">>

\* Writing text in text mode (newline=None): every "\n" becomes os.linesep.
\* The characters of a text are "CR" (\r), "LF" (\n), "sur" (a lone
\* surrogate, which UTF-8 cannot encode) and letters.
RECURSIVE encode(_)
encode(text) ==
    IF text = <<>> THEN <<>>
    ELSE (IF Head(text) = "LF" THEN linesep ELSE <<Head(text)>>)
         \o encode(Tail(text))

encodable(text) == "sur" \notin Range(text)

\* Reading text in text mode (newline=None): "\r\n" and "\r" become "\n".
RECURSIVE decode(_)
decode(bytes) ==
    IF bytes = <<>> THEN <<>>
    ELSE IF Head(bytes) = "CR"
         THEN <<"LF">> \o decode(IF Len(bytes) >= 2 /\ bytes[2] = "LF"
                                 THEN Tail(Tail(bytes)) ELSE Tail(bytes))
         ELSE <<Head(bytes)>> \o decode(Tail(bytes))

\* The "\n".join of list_dir: a directory of the model has at most one entry.
listing(fs, p) ==
    LET kids == Children(p) \cap DOMAIN fs
    IN  IF kids = {} THEN <<>>
        ELSE LET q == CHOOSE k \in kids : TRUE
             IN  <<IF is_dir(fs, q) THEN "DIR" ELSE "FILE", ": ", Name(q)>>

\* Where shutil.copy2 and shutil.move put the file: into the destination when
\* it is a directory (the calls of the model put a file named "f" into "d").
target(fs, src, dst) == IF is_dir(fs, dst) THEN "d/f" ELSE dst

\* A body that makes the parent directory of the path before it looks at
\* the arguments.
FileSystemTool_body_eager(fs, c, env) ==
    LET made == mkdir_parents(fs, Parent(c.path))
    IN  IF made.raised THEN Raise(made.exc, fs, 0, 0)
        ELSE Return(<<"Content is required for write operation">>,
                    made.fs, 0, 0)

\* FileSystemTool._run, the body of its try block.
FileSystemTool_body(fs, c, env) ==
    LET path == c.path
        operation == c.operation
    IN
    IF operation = "create_file" THEN
        LET made == mkdir_parents(fs, Parent(path)) IN
        IF made.raised THEN Raise(made.exc, fs, 0, 0)
        ELSE IF env.fault THEN Raise("PermissionError", made.fs, 0, 0)
        ELSE Return(<<"File created: ", path>>,
                    IF exists(made.fs, path) THEN made.fs
                    ELSE Put(made.fs, path, File(<<>>)), 0, 0)
    ELSE IF operation = "read_file" THEN
        IF ~exists(fs, path) THEN Return(<<"File not found: ", path>>, fs, 0, 0)
        ELSE IF is_dir(fs, path) THEN Raise("IsADirectoryError", fs, 0, 0)
        ELSE IF env.fault THEN Raise("PermissionError", fs, 0, 0)
        ELSE Return(decode(fs[path].bytes), fs, 0, 0)
    ELSE IF operation = "write_file" THEN
        IF c.content = None
        THEN Return(<<"Content is required for write operation">>, fs, 0, 0)
        ELSE LET made == mkdir_parents(fs, Parent(path)) IN
        IF made.raised THEN Raise(made.exc, fs, 0, 0)
        ELSE IF is_dir(made.fs, path)
             THEN Raise("IsADirectoryError", made.fs, 0, 0)
        ELSE IF env.fault THEN Raise("PermissionError", made.fs, 0, 0)
        ELSE IF ~encodable(c.content[1])
             THEN Raise("UnicodeEncodeError",
                        Put(made.fs, path, File(<<>>)), 0, 0)
        ELSE Return(<<"Content written to: ", path>>,
                    Put(made.fs, path, File(encode(c.content[1]))), 0, 0)
    ELSE IF operation = "delete_file" THEN
        IF exists(fs, path)
        THEN IF is_dir(fs, path) THEN Raise("IsADirectoryError", fs, 0, 0)
             ELSE IF env.fault THEN Raise("PermissionError", fs, 0, 0)
             ELSE Return(<<"File deleted: ", path>>, Remove(fs, {path}), 0, 0)
        ELSE Return(<<"File not found: ", path>>, fs, 0, 0)
    ELSE IF operation = "create_dir" THEN
        LET made == mkdir_parents(fs, path) IN
        IF made.raised THEN Raise(made.exc, fs, 0, 0)
        ELSE IF env.fault THEN Raise("PermissionError", fs, 0, 0)
        ELSE Return(<<"Directory created: ", path>>, made.fs, 0, 0)
    ELSE IF operation = "delete_dir" THEN
        IF exists(fs, path)
        THEN IF ~is_dir(fs, path) THEN Raise("NotADirectoryError", fs, 0, 0)
             ELSE IF env.fault THEN Raise("PermissionError", fs, 0, 0)
             ELSE Return(<<"Directory deleted: ", path>>,
                         Remove(fs, {path} \cup Children(path)), 0, 0)
        ELSE Return(<<"Directory not found: ", path>>, fs, 0, 0)
    ELSE IF operation = "list_dir" THEN
        IF ~exists(fs, path)
        THEN Return(<<"Directory not found: ", path>>, fs, 0, 0)
        ELSE IF ~is_dir(fs, path) THEN Raise("NotADirectoryError", fs, 0, 0)
        ELSE IF env.fault THEN Raise("PermissionError", fs, 0, 0)
        ELSE Return(listing(fs, path), fs, 0, 0)
    ELSE IF operation = "copy_file" THEN
        IF c.destination = None
        THEN Return(<<"Destination is required for copy operation">>, fs, 0, 0)
        ELSE IF ~exists(fs, path)
        THEN Return(<<"Source file not found: ", path>>, fs, 0, 0)
        ELSE LET destination == c.destination[1]
                 made == mkdir_parents(fs, Parent(destination))
                 dst == target(made.fs, path, destination)
             IN
        IF made.raised THEN Raise(made.exc, fs, 0, 0)
        ELSE IF dst = path THEN Raise("SameFileError", made.fs, 0, 0)
        ELSE IF is_dir(made.fs, path) \/ is_dir(made.fs, dst)
             THEN Raise("IsADirectoryError", made.fs, 0, 0)
        ELSE IF env.fault THEN Raise("PermissionError", made.fs, 0, 0)
        ELSE Return(<<"File copied from ", path, " to ", destination>>,
                    Put(made.fs, dst, made.fs[path]), 0, 0)
    ELSE IF operation = "move_file" THEN
        IF c.destination = None
        THEN Return(<<"Destination is required for move operation">>, fs, 0, 0)
        ELSE IF ~exists(fs, path)
        THEN Return(<<"Source file not found: ", path>>, fs, 0, 0)
        ELSE LET destination == c.destination[1]
                 made == mkdir_parents(fs, Parent(destination))
                 dst == target(made.fs, path, destination)
             IN
        IF made.raised THEN Raise(made.exc, fs, 0, 0)
        ELSE IF is_dir(made.fs, destination) /\ exists(made.fs, dst)
             THEN Raise("Error", made.fs, 0, 0)
        ELSE IF env.fault THEN Raise("PermissionError", made.fs, 0, 0)
        ELSE Return(<<"File moved from ", path, " to ", destination>>,
                    Put(Remove(made.fs, {path}), dst, made.fs[path]), 0, 0)
    ELSE Return(<<"Unknown operation: ", operation>>, fs, 0, 0)

\* A _run without its except clause.
FileSystemTool_run_uncaught(fs, c, env) == FileSystemTool_body(fs, c, env)

\* FileSystemTool._run: try ... except Exception as e: return "Error ...".
FileSystemTool_run(fs, c, env) ==
    LET r == FileSystemTool_body(fs, c, env)
    IN  IF r.raised
        THEN Return(<<"Error executing ", c.operation, ": ", r.value[1]>>,
                    r.fs, r.subprocs, r.requests)
        ELSE r

\* The truth value of an optional string: None and "" are false.
truthy(opt) == opt # None /\ opt[1] # <<>>

\* subprocess.run([...], capture_output=True, text=True, cwd=cwd) and the
\* string _run makes of its result.
git_run(fs, operation, cwd, env, fs_after) ==
    IF env.fault THEN Raise("FileNotFoundError", fs, 1, 0)
    ELSE IF ~is_dir(fs, cwd) THEN Raise("NotADirectoryError", fs, 1, 0)
    ELSE IF env.ok
         THEN Return(<<"Git ", operation, " successful:\n", "stdout">>,
                     fs_after, 1, 0)
         ELSE Return(<<"Git ", operation, " failed:\n", "stderr">>, fs, 1, 0)

\* A body that runs git in the path without looking at it first.
GitTool_body_unchecked(fs, c, env) == git_run(fs, c.operation, c.path, env, fs)

\* GitTool._run, the body of its try block.
GitTool_body(fs, c, env) ==
    LET path == c.path
        operation == c.operation
    IN
    IF operation = "clone" /\ truthy(c.remote_url)
    THEN git_run(fs, operation, ".", env,
                 IF exists(fs, path) THEN fs ELSE Put(fs, path, Dir))
    ELSE IF ~exists(fs, path)
    THEN Return(<<"Path does not exist: ", path>>, fs, 0, 0)
    ELSE IF operation \in {"init", "add", "push", "pull", "status", "branch"}
    THEN git_run(fs, operation, path, env, fs)
    ELSE IF operation = "commit"
    THEN IF ~truthy(c.message)
         THEN Return(<<"Commit message is required">>, fs, 0, 0)
         ELSE git_run(fs, operation, path, env, fs)
    ELSE IF operation = "checkout"
    THEN IF ~truthy(c.branch)
         THEN Return(<<"Branch name is required for checkout">>, fs, 0, 0)
         ELSE git_run(fs, operation, path, env, fs)
    ELSE Return(<<"Unknown Git operation: ", operation>>, fs, 0, 0)

\* GitTool._run: try ... except Exception as e: return "Error ...".
GitTool_run(fs, c, env) ==
    LET r == GitTool_body(fs, c, env)
    IN  IF r.raised
        THEN Return(<<"Error executing Git ", c.operation, ": ", r.value[1]>>,
                    r.fs, r.subprocs, r.requests)
        ELSE r

\* open(file_path, "r", encoding="utf-8").read(), as the helpers guard it.
analysis_read(fs, file_path, env) ==
    IF is_dir(fs, file_path) THEN Raise("IsADirectoryError", fs, 0, 0)
    ELSE IF env.fault THEN Raise("PermissionError", fs, 0, 0)
    ELSE Return(decode(fs[file_path].bytes), fs, 0, 0)

\* CodeAnalysisTool._analyze_python_structure; ast.parse raises SyntaxError
\* on a text that is not Python.
analyze_python_structure(fs, file_path, env) ==
    LET r == analysis_read(fs, file_path, env)
    IN  IF r.raised
        THEN Return(<<"Error analyzing Python structure: ", r.value[1]>>,
                    fs, 0, 0)
        ELSE IF ~env.ok
        THEN Return(<<"Error analyzing Python structure: ", "SyntaxError">>,
                    fs, 0, 0)
        ELSE Return(<<"Python Structure Analysis for ", Name(file_path), ":\n">>
                    \o r.value, fs, 0, 0)

\* CodeAnalysisTool._analyze_python_complexity
analyze_python_complexity(fs, file_path, env) ==
    IF env.fault
    THEN Return(<<"Error analyzing complexity: ", "FileNotFoundError">>,
                fs, 1, 0)
    ELSE IF env.ok
    THEN Return(<<"No complex functions found (complexity < 5)">>, fs, 1, 0)
    ELSE Return(<<"McCabe complexity analysis not available (install mccabe: pip install mccabe)">>,
                fs, 1, 0)

\* CodeAnalysisTool._lint_python_code
lint_python_code(fs, file_path, env) ==
    IF env.fault
    THEN Return(<<"Error linting code: ", "FileNotFoundError">>, fs, 1, 0)
    ELSE IF env.ok
    THEN Return(<<"No linting issues found">>, fs, 1, 0)
    ELSE Return(<<"Linting Issues:\n", "stdout">>, fs, 1, 0)

\* str.splitlines(): no line for the empty text, none after a final "\n".
RECURSIVE splitlines(_)
splitlines(content) ==
    IF content = <<>> THEN <<>>
    ELSE IF \A i \in 1..Len(content) : content[i] # "LF" THEN <<content>>
    ELSE LET k == CHOOSE i \in 1..Len(content) :
                      content[i] = "LF" /\ \A j \in 1..(i - 1) : content[j] # "LF"
         IN  <<SubSeq(content, 1, k - 1)>>
             \o splitlines(SubSeq(content, k + 1, Len(content)))

\* content.split('\n'): always at least one line, empty lines kept.
RECURSIVE split_lines(_)
split_lines(content) ==
    IF \A i \in 1..Len(content) : content[i] # "LF" THEN <<content>>
    ELSE LET k == CHOOSE i \in 1..Len(content) :
                      content[i] = "LF" /\ \A j \in 1..(i - 1) : content[j] # "LF"
         IN  <<SubSeq(content, 1, k - 1)>>
             \o split_lines(SubSeq(content, k + 1, Len(content)))

\* not line.strip()
is_blank(line) == strip(line) = <<>>

\* line.strip().startswith('#')
is_comment(line) == strip(line) # <<>> /\ strip(line)[1] = "#"

\* The counts of _analyze_code_quality.
quality_counts(content) ==
    LET lines == split_lines(content)
        total_lines == Len(lines)
        blank_lines == Cardinality({i \in 1..Len(lines) : is_blank(lines[i])})
        comment_lines ==
            Cardinality({i \in 1..Len(lines) : is_comment(lines[i])})
    IN  [total_lines |-> total_lines, blank_lines |-> blank_lines,
         comment_lines |-> comment_lines,
         code_lines |-> total_lines - blank_lines - comment_lines]

\* f"{comment_lines / total_lines * 100:.1f}", in tenths of a percent (no
\* ratio of the texts of the model lies halfway between two tenths).
comment_ratio(comment_lines, total_lines) ==
    (2000 * comment_lines + total_lines) \div (2 * total_lines)

\* CodeAnalysisTool._analyze_code_quality
analyze_code_quality(fs, file_path, language, env) ==
    LET r == analysis_read(fs, file_path, env)
    IN  IF r.raised
        THEN Return(<<"Error analyzing code quality: ", r.value[1]>>, fs, 0, 0)
        ELSE LET n == quality_counts(r.value) IN
             IF n.total_lines = 0
             THEN Return(<<"Error analyzing code quality: ",
                           "ZeroDivisionError">>, fs, 0, 0)
             ELSE Return(<<"Code Quality Analysis for ", Name(file_path), ":\n",
                           "Total lines: ", ToString(n.total_lines), "\n",
                           "Blank lines: ", ToString(n.blank_lines), "\n",
                           "Comment lines: ", ToString(n.comment_lines), "\n",
                           "Code lines: ", ToString(n.code_lines), "\n",
                           "Comment ratio: ",
                           ToString(comment_ratio(n.comment_lines,
                                                  n.total_lines)), "%">>,
                         fs, 0, 0)

\* CodeAnalysisTool._run, the body of its try block.
CodeAnalysisTool_body(fs, c, env) ==
    LET file_path == c.path
        operation == c.operation
        language == c.language
    IN
    IF ~exists(fs, file_path)
    THEN Return(<<"File not found: ", file_path>>, fs, 0, 0)
    ELSE IF operation = "structure" /\ language = "python"
    THEN analyze_python_structure(fs, file_path, env)
    ELSE IF operation = "complexity" /\ language = "python"
    THEN analyze_python_complexity(fs, file_path, env)
    ELSE IF operation = "lint" /\ language = "python"
    THEN lint_python_code(fs, file_path, env)
    ELSE IF operation = "quality"
    THEN analyze_code_quality(fs, file_path, language, env)
    ELSE Return(<<"Analysis operation '", operation, "' not supported for ",
                  language>>, fs, 0, 0)

\* CodeAnalysisTool._run: try ... except Exception as e: return "Error ...".
CodeAnalysisTool_run(fs, c, env) ==
    LET r == CodeAnalysisTool_body(fs, c, env)
    IN  IF r.raised
        THEN Return(<<"Error analyzing code: ", r.value[1]>>,
                    r.fs, r.subprocs, r.requests)
        ELSE r

\* The length of a symbol of a query or of a search result, in characters.
SymbolLen(sym) ==
    CASE sym = "api" -> 3
      [] sym = "how to build a todo api quickly" -> 31
      [] sym = "site:docs.python.org " -> 21
      [] sym = "site:developer.mozilla.org " -> 27
      [] sym = "site:stackoverflow.com " -> 23
      [] sym = "site:github.com " -> 16
      [] sym = "Search results for: " -> 20
      [] sym = "Summary: " -> 9
      [] sym = "abstract" -> 40
      [] sym = "\n\n" -> 2

\* len(str)
RECURSIVE len(_)
len(text) == IF text = <<>> THEN 0 ELSE SymbolLen(Head(text)) + len(Tail(text))

\* WebResearchTool._search_web: one requests.get, answered with status 200
\* and an abstract ("200 rich"), with status 200 and nothing ("200 bare"),
\* with another status ("503"), or not at all ("raise").
search_web(query, response) ==
    IF response = "raise"
    THEN <<"Error searching web: ", "ConnectionError">>
    ELSE IF response = "503"
    THEN <<"Search failed with status code: ", "503">>
    ELSE LET header == <<"Search results for: ">> \o query \o <<"\n\n">>
             text == IF response = "200 rich"
                     THEN header \o <<"Summary: ", "abstract", "\n\n">>
                     ELSE header
         IN  IF len(text) > 50 THEN text
             ELSE <<"No detailed results found for this query">>

\* The length beyond which a scraped text is cut.
max_text_length == 2000

\* A limit that cuts one character early.
limit_early(text) ==
    IF Len(text) >= max_text_length
    THEN SubSeq(text, 1, max_text_length - 1) \o <<"... (truncated)">>
    ELSE text

\* text[:2000] + "... (truncated)" when len(text) > 2000
limit(text) ==
    IF Len(text) > max_text_length
    THEN SubSeq(text, 1, max_text_length) \o <<"... (truncated)">>
    ELSE text

\* WebResearchTool._scrape_url: one requests.get; page is the cleaned text.
scrape_url(url, response, page) ==
    IF response = "raise"
    THEN <<"Error scraping URL: ", "ConnectionError">>
    ELSE IF response = "503"
    THEN <<"Failed to scrape URL. Status code: ", "503">>
    ELSE <<"Content from ">> \o url \o <<":\n\n">> \o limit(page)

\* A documentation search that asks the first site only.
searched_sites_first(doc_sites) == SubSeq(doc_sites, 1, 1)

\* doc_sites[:2]
searched_sites(doc_sites) == SubSeq(doc_sites, 1, 2)

\* "\n\n".join(results)
RECURSIVE join(_)
join(results) ==
    IF results = <<>> THEN <<>>
    ELSE IF Len(results) = 1 THEN Head(results)
    ELSE Head(results) \o <<"\n\n">> \o join(Tail(results))

\* WebResearchTool._search_documentation: one _search_web per site searched.
search_documentation(query, responses) ==
    LET doc_sites == << <<"site:docs.python.org ">> \o query,
                        <<"site:developer.mozilla.org ">> \o query,
                        <<"site:stackoverflow.com ">> \o query,
                        <<"site:github.com ">> \o query >>
        sites == searched_sites(doc_sites)
        found == [i \in 1..Len(sites) |-> search_web(sites[i], responses[i])]
        kept == SelectSeq(found,
                    LAMBDA r : r # <<"No detailed results found for this query">>)
    IN  [value |-> IF kept # <<>> THEN join(kept)
                   ELSE <<"No documentation found for: ">> \o query,
         requests |-> Len(sites)]

\* WebResearchTool._run, the body of its try block.
WebResearchTool_body(fs, c, env) ==
    IF c.operation = "search"
    THEN Return(search_web(c.query, env.responses[1]), fs, 0, 1)
    ELSE IF c.operation = "scrape" /\ truthy(c.url)
    THEN Return(scrape_url(c.url[1], env.responses[1], env.page), fs, 0, 1)
    ELSE IF c.operation = "documentation"
    THEN LET d == search_documentation(c.query, env.responses)
         IN  Return(d.value, fs, 0, d.requests)
    ELSE Return(<<"Unknown operation: ", c.operation>>, fs, 0, 0)

\* WebResearchTool._run: try ... except Exception as e: return "Error ...".
WebResearchTool_run(fs, c, env) ==
    LET r == WebResearchTool_body(fs, c, env)
    IN  IF r.raised
        THEN Return(<<"Error in web research: ", r.value[1]>>,
                    r.fs, r.subprocs, r.requests)
        ELSE r

\* ------------------------------------------------- calls of the adapters

\* The characters of a source text: a letter, a space, the comment sign and
\* the line ends.
SourceAlphabet == {"a", " ", "#", "LF", "CR"}

\* The source texts of at most MaxLen characters.
SourceTexts == UNION {[1..n -> SourceAlphabet] : n \in 0..MaxLen}

\* The working directory holds one source file, f.
InitQuality ==
    /\ setup = no_setup
    /\ peer = no_process
    /\ proc = "none"
    /\ pc = "idle"
    /\ exit_code = 0
    /\ uncaught = FALSE
    /\ runs = 0
    /\ description = <<>>
    /\ seed = 0
    /\ agent_selection = <<>>
    /\ task_selection = <<>>
    /\ selected_agents = <<>>
    /\ selected_tasks = <<>>
    /\ the_crew = no_crew
    /\ state = "Idle"
    /\ step_index = 0
    /\ inflight = {}
    /\ prompt = no_prompt
    /\ context = <<>>
    /\ result = <<>>
    /\ files = no_files
    /\ started = <<>>
    /\ artifacts = <<>>
    /\ files0 = no_files
    /\ last_run = no_run
    /\ error = "none"
    /\ iterations = 0
    /\ elapsed = 0
    /\ heartbeat = FALSE
    /\ \E text \in SourceTexts : disk = Put(no_files, "f", File(text))
    /\ call = no_call
    /\ outcome = no_outcome
    /\ subprocs = 0
    /\ requests = 0
    /\ disk0 = disk


FsOperations ==
    {"create_file", "read_file", "write_file", "delete_file", "create_dir",
     "delete_dir", "list_dir", "copy_file", "move_file", "frobnicate"}

Contents ==
    {None, Some(<<>>), Some(<<"a", "CR", "LF", "b">>), Some(<<"sur">>)}

DestinationArgs == {None, Some("f"), Some("d"), Some("d/f")}

GitOperations ==
    {"init", "add", "commit", "push", "pull", "status", "branch", "checkout",
     "clone", "frobnicate"}

GitPaths == {".", "d"}

AnalysisOperations == {"structure", "complexity", "lint", "quality", "frobnicate"}

Languages == {"python", "javascript"}

ResearchOperations == {"search", "scrape", "documentation", "frobnicate"}

Queries == { <<"api">>, <<"how to build a todo api quickly">> }

UrlArgs == {None, Some(<<>>), Some(<<"https://example.org/">>)}

Responses == {"200 rich", "200 bare", "503", "raise"}

\* A cleaned page text of n characters.
Page(n) == [i \in 1..n |-> IF i % 3 = 0 THEN "a" ELSE IF i % 3 = 1 THEN "b" ELSE "c"]

PageLengths ==
    {0, 3, max_text_length - 1, max_text_length, max_text_length + 1,
     max_text_length + 7}

\* The calls whose effect the working directory of the model can hold: a
\* file copied or moved into a directory is a file named "f" put into "d",
\* what is moved is a file, and a clone succeeds only where git can put it.
Modelled(fs, c) ==
    /\ (c.operation \in {"copy_file", "move_file"} /\ c.destination # None) =>
           /\ is_dir(fs, c.destination[1]) =>
                  (c.destination[1] = "d" /\ Name(c.path) = "f")
           /\ c.operation = "move_file" => ~is_dir(fs, c.path)
    /\ (c.tool = "GitTool" /\ c.operation = "clone" /\ c.env.ok) =>
           (~exists(fs, c.path) \/ is_dir(fs, c.path))

\* The call c was made and came to r.
Made(c, r) ==
    /\ call' = c
    /\ outcome' = [raised |-> r.raised, value |-> r.value]
    /\ disk' = r.fs
    /\ disk0' = disk
    /\ subprocs' = r.subprocs
    /\ requests' = r.requests
    /\ UNCHANGED << pipeline_vars, driver_vars, peer, setup >>

\* A persona calls the file system tool.
FileSystemTool ==
    \E operation \in FsOperations, path \in Paths, fault \in BOOLEAN :
    \E content \in (IF operation = "write_file" THEN Contents
                    ELSE IF operation = "frobnicate" THEN {None, Some(<<"a">>)}
                    ELSE {None}),
       destination \in (IF operation \in {"copy_file", "move_file"}
                        THEN DestinationArgs ELSE {None}) :
        LET c == Call("FileSystemTool", operation, path, content, destination,
                      None, None, None, "", <<>>, None,
                      Env(fault, TRUE, <<>>, <<>>))
        IN  /\ Modelled(disk, c)
            /\ Made(c, FileSystemTool_run(disk, c, c.env))

\* A persona calls the git tool.
GitTool ==
    \E operation \in GitOperations, path \in GitPaths,
       e \in {<<FALSE, TRUE>>, <<FALSE, FALSE>>, <<TRUE, TRUE>>} :
    \E message \in (IF operation = "commit"
                    THEN {None, Some(<<>>), Some(<<"msg">>)} ELSE {None}),
       branch \in (IF operation \in {"branch", "checkout"}
                   THEN {None, Some(<<"dev">>)} ELSE {None}),
       remote_url \in (IF operation = "clone"
                       THEN {None, Some(<<>>),
                             Some(<<"https://example.org/r.git">>)}
                       ELSE {None}) :
        LET c == Call("GitTool", operation, path, None, None, message, branch,
                      remote_url, "", <<>>, None,
                      Env(e[1], e[2], <<>>, <<>>))
        IN  /\ Modelled(disk, c)
            /\ Made(c, GitTool_run(disk, c, c.env))

\* A persona calls the code analysis tool.
CodeAnalysisTool ==
    \E operation \in AnalysisOperations, file_path \in Paths,
       language \in Languages,
       e \in {<<FALSE, TRUE>>, <<FALSE, FALSE>>, <<TRUE, TRUE>>} :
        LET c == Call("CodeAnalysisTool", operation, file_path, None, None,
                      None, None, None, language, <<>>, None,
                      Env(e[1], e[2], <<>>, <<>>))
        IN  /\ Modelled(disk, c)
            /\ Made(c, CodeAnalysisTool_run(disk, c, c.env))

\* A persona calls the web research tool.  The tool neither reads nor writes
\* the working directory: its calls are explored from the empty one.
WebResearchTool ==
    /\ disk = no_files
    /\ \E operation \in ResearchOperations, query \in Queries, url \in UrlArgs,
          r1 \in Responses :
       \E r2 \in (IF operation = "documentation" THEN Responses ELSE {"raise"}),
          n \in (IF operation = "scrape" /\ truthy(url) /\ r1 = "200 rich"
                 THEN PageLengths ELSE {0}) :
           LET c == Call("WebResearchTool", operation, "", None, None, None,
                         None, None, "", query, url,
                         Env(FALSE, TRUE, <<r1, r2>>, Page(n)))
           IN  /\ Modelled(disk, c)
               /\ Made(c, WebResearchTool_run(disk, c, c.env))

\* The four adapters.
NextTools ==
    \/ FileSystemTool
    \/ GitTool
    \/ CodeAnalysisTool
    \/ WebResearchTool

SpecTools == Init /\ [][NextTools]_vars

\* One call of the analysis adapter in a working directory no call has
\* been made in.
Analyse ==
    /\ call = no_call
    /\ CodeAnalysisTool

\* The analysis adapter, on a source file.
NextQuality ==
    \/ Analyse

SpecQuality == InitQuality /\ [][NextQuality]_vars

\* main.py, in both modes.
Next ==
    \/ main
    \/ main_return
    \/ main_except
    \/ run_custom_workflow
    \/ custom_return
    \/ custom_except
    \/ StepStart
    \/ StepSucceed
    \/ StepFail

Spec == Init /\ [][Next]_vars

\* Every entry-point script: main.py, quick_demo.py and simple_example.py.
NextScripts ==
    \/ main
    \/ main_return
    \/ main_except
    \/ run_custom_workflow
    \/ custom_return
    \/ custom_except
    \/ create_simple_demo
    \/ demo_save
    \/ demo_except
    \/ simple_analysis_example
    \/ StepStart
    \/ StepSucceed
    \/ StepFail

SpecScripts == Init /\ [][NextScripts]_vars

\* Two processes that run the full pipeline in the same working directory.
NextShared ==
    \/ main
    \/ main_return
    \/ main_except
    \/ StepStart
    \/ StepSucceed
    \/ StepFail
    \/ Switch

SpecShared == Init /\ [][NextShared]_vars

\* setup_dev_team.py, and the use of the project between two setups.
NextSetup ==
    \/ run_setup
    \/ create_project_structure
    \/ generate
    \/ install_dependencies
    \/ leave_artifact

SpecSetup == Init /\ [][NextSetup]_vars

\* The full pipeline and the quick demo, with the reasoning driver.
NextLive ==
    \/ main
    \/ main_return
    \/ main_except
    \/ create_simple_demo
    \/ demo_save
    \/ demo_except
    \/ StepStart
    \/ Iterate
    \/ StepSucceed
    \/ StepFail

\* The executor starts the step that is due, the driver of an invocation in
\* flight keeps running (it iterates, returns the artifact or fails the
\* step), and the entry point goes on when kickoff returns or raises.
\* Whether the user launches another process is left open.
SpecLive ==
    /\ Init
    /\ [][NextLive]_vars
    /\ WF_vars(StepStart)
    /\ WF_vars(Iterate \/ StepSucceed \/ StepFail)
    /\ WF_vars(main_return \/ main_except \/ demo_save \/ demo_except)

\* ------------------------------------------------------------------- claims

\* The steps of the crew, and the names of their tasks.
NSteps == Len(the_crew.tasks)

StepNames == [i \in 1..NSteps |-> the_crew.tasks[i].name]

\* The in-order concatenation of a sequence of texts.
RECURSIVE Flatten(_)
Flatten(texts) ==
    IF texts = <<>> THEN <<>> ELSE Head(texts) \o Flatten(Tail(texts))

\* The destination files of the steps 1..k of the crew.
Destinations(k) == {output_file(StepNames[j]) : j \in 1..k}

\* C1: once a step of a run has failed the run stays Failed: within the same
\* process the executor starts no further step, neither the failed one again
\* nor a later one; and a failing invocation always takes the run to Failed
\* with every step started so far being one of 1..k.
C1_FailFast ==
    [][ /\ (pc = "kickoff" /\ error = "none" /\ error' = "StepExecutionError")
            => (state' = "Failed" /\ step_index' = step_index
                /\ started' = started /\ Len(started) = step_index)
        /\ (state = "Failed" /\ runs' = runs)
            => (state' = "Failed" /\ started' = started
                /\ step_index' = step_index /\ artifacts' = artifacts) ]_vars

\* A run of the full pipeline that failed at a step in the middle and whose
\* process has ended.
C1_Witness ==
    /\ proc = "main"
    /\ pc = "exited"
    /\ state = "Failed"
    /\ step_index = 4
    /\ started = <<1, 2, 3, 4>>

\* C2: the steps start in list order, one at a time: the steps started are
\* 1, 2, .., n in that order, at most one invocation is in flight, it is the
\* one of the step started last, and every step started before it has
\* delivered its artifact.
C2_Sequential ==
    /\ Cardinality(inflight) <= 1
    /\ \A j \in 1..Len(started) : started[j] = j
    /\ Len(started) <= NSteps
    /\ inflight # {} => (inflight = {Len(started)}
                         /\ Len(artifacts) = Len(started) - 1)
    /\ (inflight = {} /\ state \in {"Running", "Completed"})
           => Len(artifacts) = Len(started)

\* The third step of a run is in flight.
C2_Witness ==
    /\ state = "Running"
    /\ inflight = {3}
    /\ Len(artifacts) = 2

\* C3, as stated, for a run whose steps have pairwise distinct destination
\* files: when the run has failed at step k the destination files of the
\* steps before k exist and those of the steps from k on do not exist.
C3_Original ==
    (state = "Failed" /\ Cardinality(Destinations(NSteps)) = NSteps) =>
        /\ \A j \in 1..(step_index - 1) :
               output_file(StepNames[j]) \in DOMAIN files
        /\ \A j \in step_index..NSteps :
               output_file(StepNames[j]) \notin DOMAIN files

\* C3, amended: when a run has failed at step k the destination files of the
\* steps before k exist, and every other file of the output directory is as
\* it was when the run started: it exists if and only if it existed, with
\* the content it had.
C3_Amended ==
    state = "Failed" =>
        /\ Destinations(step_index - 1) \subseteq DOMAIN files
        /\ DOMAIN files = DOMAIN files0 \cup Destinations(step_index - 1)
        /\ \A p \in DOMAIN files0 \ Destinations(step_index - 1) :
               files[p] = files0[p]

\* A full run failed at its third step while the files of the later steps,
\* left by an earlier run, are still there.
C3_Witness ==
    /\ proc = "main"
    /\ state = "Failed"
    /\ step_index = 3
    /\ output_file(StepNames[3]) \in DOMAIN files
    /\ output_file(StepNames[10]) \in DOMAIN files

\* C4: the destination file of the step that succeeded last holds exactly
\* that step's artifact; and a single-step run with the stub persona that
\* has completed leaves exactly the stub's text in the destination file and
\* ends with exit code 0.
C4_ArtifactPersisted ==
    /\ Len(artifacts) >= 1 =>
           LET j == Len(artifacts)
               f == output_file(StepNames[j])
           IN  f \in DOMAIN files /\ files[f] = artifacts[j]
    /\ (pc = "exited" /\ state = "Completed" /\ NSteps = 1 /\ seed = 0) =>
           /\ files[output_file(StepNames[1])]
                  = << <<"OK", StepNames[1], Len(description)>> >>
           /\ exit_code = 0

\* A step has overwritten a file that an earlier run left with another text.
C4_Witness ==
    /\ Len(artifacts) >= 1
    /\ LET f == output_file(StepNames[Len(artifacts)])
       IN  f \in DOMAIN files0 /\ files0[f] # files[f]
    /\ pc = "exited" /\ state = "Completed" /\ NSteps = 1 /\ seed = 0

ClaimItem(raw, registry) ==
    LET item == strip(raw)
        number == item # <<>> /\ \A i \in 1..Len(item) : item[i] \in AsciiDigits
    IN  IF number /\ 1 <= int(item) /\ int(item) <= Len(registry)
        THEN <<registry[int(item)]>>
        ELSE IF ~number /\ Len(item) = 1 /\ item[1] \in Range(registry)
             THEN <<item[1]>>
             ELSE <<>>

\* The valid entries of a selection string, in input order.
ClaimSelect(selection, registry) ==
    LET items == split(selection)
    IN  Flatten([i \in 1..Len(items) |-> ClaimItem(items[i], registry)])

\* The custom workflow got past "All fields are required!".
FieldsGiven ==
    /\ proc = "run_custom_workflow"
    /\ <<>> \notin {agent_selection, task_selection, description}

\* C7: for every selection the user typed, the selection step does not
\* raise and returns exactly the valid entries of the input, in input order.
C7_Selection ==
    FieldsGiven =>
        /\ ~uncaught
        /\ error # "ValueError"
        /\ selected_agents = ClaimSelect(agent_selection, available_agents)
        /\ selected_tasks = ClaimSelect(task_selection, available_tasks)

\* The place of a task in the full pipeline.
CanonicalIndex(name) == CHOOSE k \in 1..Len(available_tasks) : available_tasks[k] = name

\* C8, as stated: a custom workflow runs the selected steps in the order of
\* the full pipeline.
C8_Original ==
    (proc = "run_custom_workflow" /\ state # "Idle") =>
        /\ Range(StepNames) = Range(selected_tasks)
        /\ \A i, j \in 1..NSteps :
               i < j => CanonicalIndex(StepNames[i]) <= CanonicalIndex(StepNames[j])

\* C8, amended: a custom workflow runs exactly the selected steps, in the
\* order in which the user typed them, a step typed twice running twice.
C8_TypedOrder ==
    (proc = "run_custom_workflow" /\ state # "Idle") =>
        /\ selected_tasks = ClaimSelect(task_selection, available_tasks)
        /\ StepNames = selected_tasks
        /\ \A j \in 1..Len(started) : started[j] = j
        /\ Len(artifacts) <= Len(selected_tasks)
        /\ \A j \in 1..Len(artifacts) : artifacts[j][1][2] = selected_tasks[j]
        /\ state = "Completed" => Len(artifacts) = Len(selected_tasks)

\* The user typed "3,1" and the workflow completed.
C8_Witness ==
    /\ proc = "run_custom_workflow"
    /\ state = "Completed"
    /\ task_selection = <<"3", ",", "1">>
    /\ selected_tasks = <<"develop_backend", "analyze_project">>
    /\ Len(artifacts) = 2

\* The cases in which the CLI is to exit with code 1.
ExitOneCase ==
    \/ strip(description) = <<>>
    \/ error \in {"ConfigurationError", "StepExecutionError"}
    \/ /\ proc = "run_custom_workflow"
       /\ \/ ClaimSelect(agent_selection, available_agents) = <<>>
          \/ ClaimSelect(task_selection, available_tasks) = <<>>

\* C9: the CLI exits with code 1 on an empty or blank description, on an
\* agent or task subset that is empty once the unknown names are dropped,
\* and when crew construction or execution raises; otherwise with code 0.
C9_ExitCodes ==
    pc = "exited" => exit_code = (IF ExitOneCase THEN 1 ELSE 0)

\* C10: in every entry-point script, a process in which building or
\* executing the run raised ends with a non-zero exit code.
C10_FatalNonZero ==
    (pc = "exited" /\ error \in {"ConfigurationError", "StepExecutionError"})
        => exit_code # 0

\* A text of nothing but spaces, the empty text included.
Blank(text) == \A i \in 1..Len(text) : text[i] = " "

\* The process has ended and its run was one to reject: the description is
\* empty, the custom subset of agents or of tasks has no valid entry, or
\* building the crew failed.
Rejected ==
    /\ pc = "exited"
    /\ \/ proc \in {"main", "run_custom_workflow"} /\ Blank(description)
       \/ error = "ConfigurationError"
       \/ /\ proc = "run_custom_workflow"
          /\ \/ ClaimSelect(agent_selection, available_agents) = <<>>
             \/ ClaimSelect(task_selection, available_tasks) = <<>>

\* C11: a run that is rejected (empty description, a custom subset with no
\* valid agent or no valid task, crew construction failing) is rejected
\* before any execution: the executor is still Idle, no step was started, no
\* artifact was produced and the output files are as they were when the
\* process was launched.
C11_RejectedBeforeExecution ==
    Rejected =>
        /\ state = "Idle"
        /\ started = <<>>
        /\ artifacts = <<>>
        /\ inflight = {}
        /\ files = files0

\* After a full run left its files, a custom workflow with valid agents and
\* no valid task was rejected.
C11_Witness ==
    /\ Rejected
    /\ proc = "run_custom_workflow"
    /\ error = "none"
    /\ selected_agents # <<>>
    /\ selected_tasks = <<>>
    /\ Blank(description) = FALSE
    /\ files # no_files

\* An adapter has been called.
Called == call.tool # ""

\* C12: every call of every adapter (file system, git, code analysis, web
\* research), whatever the operation name and the arguments and whether or
\* not the operating system, the subprocess or the network fails, returns a
\* string and raises nothing to its caller.
C12_Total ==
    Called =>
        /\ ~outcome.raised
        /\ outcome.value \in Seq(STRING)

\* A git call whose subprocess could not be started returned a description
\* of the failure.
C12_Witness ==
    /\ call.tool = "GitTool"
    /\ call.operation = "push"
    /\ call.env.fault
    /\ ~outcome.raised
    /\ outcome.value = <<"Error executing Git ", "push", ": ", "FileNotFoundError">>

\* The operations an adapter supports.
Supported(tool) ==
    CASE tool = "FileSystemTool" -> FsOperations \ {"frobnicate"}
      [] tool = "GitTool" -> GitOperations \ {"frobnicate"}
      [] tool = "CodeAnalysisTool" -> AnalysisOperations \ {"frobnicate"}
      [] tool = "WebResearchTool" -> ResearchOperations \ {"frobnicate"}
      [] OTHER -> {}

\* The string an adapter returns for an operation it does not support.
UnsupportedOperation(value) ==
    /\ value # <<>>
    /\ value[1] \in {"Unknown operation: ", "Unknown Git operation: ",
                      "Analysis operation '"}

\* C13: a call of any adapter with an operation name outside its supported
\* set returns the unsupported-operation string, with the name in it,
\* whatever the other arguments are, a path that does not exist included.
C13_UnknownOperation ==
    (Called /\ call.operation \notin Supported(call.tool)) =>
        /\ ~outcome.raised
        /\ UnsupportedOperation(outcome.value)
        /\ call.operation \in Range(outcome.value)

\* The calls that escape C13: the git and the analysis adapter look at the
\* path before they look at the operation.
C13_PathFirst ==
    /\ call.tool \in {"GitTool", "CodeAnalysisTool"}
    /\ ~exists(disk0, call.path)

\* The call leaves out the argument its operation requires: the content of
\* write_file, the destination of copy_file and move_file, the message of
\* commit, the branch of checkout, the remote URL of clone, the URL of
\* scrape.
MissingArgument(c) ==
    \/ /\ c.tool = "FileSystemTool"
       /\ \/ c.operation = "write_file" /\ c.content = None
          \/ c.operation \in {"copy_file", "move_file"} /\ c.destination = None
    \/ /\ c.tool = "GitTool"
       /\ \/ c.operation = "commit" /\ c.message = None
          \/ c.operation = "checkout" /\ c.branch = None
          \/ c.operation = "clone" /\ c.remote_url = None
    \/ /\ c.tool = "WebResearchTool"
       /\ c.operation = "scrape" /\ c.url = None

\* The strings the adapters have for a missing argument.
MissingArgumentStrings ==
    {"Content is required for write operation",
     "Destination is required for copy operation",
     "Destination is required for move operation",
     "Commit message is required",
     "Branch name is required for checkout"}

\* C14: a call that leaves out the argument its operation requires returns
\* a missing-argument string, which is not the unknown-operation string, and
\* has no side effect: the working directory is unchanged and no subprocess
\* and no network request was made.
C14_MissingArgument ==
    (Called /\ MissingArgument(call)) =>
        /\ ~outcome.raised
        /\ outcome.value # <<>>
        /\ outcome.value[1] \in MissingArgumentStrings
        /\ ~UnsupportedOperation(outcome.value)
        /\ disk = disk0
        /\ subprocs = 0
        /\ requests = 0

\* The calls that escape C14: clone and scrape have no missing-argument
\* answer, and the git adapter looks at the path first.
C14_NoAnswer ==
    \/ call.tool = "WebResearchTool"
    \/ call.tool = "GitTool" /\ call.operation = "clone"
    \/ call.tool = "GitTool" /\ ~exists(disk0, call.path)

\* C15: the commit operation of the git adapter, called with no message or
\* with an empty one, returns the message-required string and runs no
\* subprocess, whatever the path argument is.
C15_CommitMessageRequired ==
    (call.tool = "GitTool" /\ call.operation = "commit"
     /\ ~truthy(call.message)) =>
        /\ outcome = [raised |-> FALSE, value |-> <<"Commit message is required">>]
        /\ subprocs = 0
        /\ disk = disk0

\* This step is a read_file of the path the last call, a write_file that
\* succeeded, wrote to; the operating system does not refuse the read.
WriteThenRead ==
    /\ call.tool = "FileSystemTool"
    /\ call.operation = "write_file"
    /\ call.content # None
    /\ outcome.value = <<"Content written to: ", call.path>>
    /\ call'.tool = "FileSystemTool"
    /\ call'.operation = "read_file"
    /\ call'.path = call.path
    /\ ~call'.env.fault

\* C16: write_file(path, content) followed at once by read_file(path)
\* returns exactly content, for every path and every content, the empty one
\* included.
C16_RoundTrip ==
    [][ WriteThenRead => outcome'.value = call.content[1] ]_vars

\* The contents that escape C16: those with a carriage return.
C16_NoCarriageReturn ==
    [][ (WriteThenRead /\ "CR" \notin Range(call.content[1]))
            => outcome'.value = call.content[1] ]_vars

\* The next step is a delete_file call.
DeleteNext ==
    /\ call'.tool = "FileSystemTool"
    /\ call'.operation = "delete_file"

\* C17: delete_file on a path that does not exist returns the not-found
\* string, raises nothing and leaves the working directory as it was;
\* delete_file on an existing file (the operating system not refusing the
\* unlink) removes that file and nothing else, and a read_file of the path
\* that follows returns the not-found string.
C17_DeleteFile ==
    [][ /\ (DeleteNext /\ ~exists(disk, call'.path)) =>
               /\ outcome' = [raised |-> FALSE,
                               value |-> <<"File not found: ", call'.path>>]
               /\ disk' = disk
        /\ (DeleteNext /\ exists(disk, call'.path)
             /\ ~is_dir(disk, call'.path) /\ ~call'.env.fault) =>
               /\ outcome' = [raised |-> FALSE,
                               value |-> <<"File deleted: ", call'.path>>]
               /\ disk' = [q \in DOMAIN disk \ {call'.path} |-> disk[q]]
        /\ ( /\ call.tool = "FileSystemTool"
             /\ call.operation = "delete_file"
             /\ outcome.value = <<"File deleted: ", call.path>>
             /\ call'.tool = "FileSystemTool"
             /\ call'.operation = "read_file"
             /\ call'.path = call.path ) =>
               outcome' = [raised |-> FALSE,
                           value |-> <<"File not found: ", call.path>>]
      ]_vars

\* A file that held text was deleted, and its directory stayed.
C17_Witness ==
    /\ call.tool = "FileSystemTool"
    /\ call.operation = "delete_file"
    /\ call.path = "d/f"
    /\ "d/f" \in DOMAIN disk0
    /\ disk0["d/f"] = File(<<"a", "CR", "LF", "b">>)
    /\ DOMAIN disk = {"d"}
    /\ outcome.value = <<"File deleted: ", "d/f">>

\* C18, as stated: each research operation (search, scrape, documentation)
\* makes exactly one network request per call.
C18_Original ==
    (call.tool = "WebResearchTool" /\ call.operation \in Supported(call.tool))
        => requests = 1

\* C18, amended: a search makes exactly one network request, a scrape
\* exactly one when it is given a URL and none when it is not, and a
\* documentation search exactly two, one for each of the first two
\* documentation sites, whatever the first one answers.
C18_Requests ==
    call.tool = "WebResearchTool" =>
        requests = (CASE call.operation = "search" -> 1
                      [] call.operation = "scrape" ->
                             (IF truthy(call.url) THEN 1 ELSE 0)
                      [] call.operation = "documentation" -> 2
                      [] OTHER -> 0)

\* A documentation search whose first request failed.
C18_Witness ==
    /\ call.tool = "WebResearchTool"
    /\ call.operation = "documentation"
    /\ call.env.responses = <<"raise", "200 rich">>
    /\ requests = 2
    /\ ~outcome.raised

\* The text a scrape returned, after the "Content from <url>:" heading.
ScrapedBody == SubSeq(outcome.value, Len(call.url[1]) + 3, Len(outcome.value))

\* C19: the body a scrape returns for a page it fetched is the cleaned text
\* in full, without the truncation marker, when that text has at most 2000
\* characters, and its first 2000 characters followed by the marker when it
\* has more: never more than 2000 characters and the marker.
C19_Truncation ==
    ( /\ call.tool = "WebResearchTool"
      /\ call.operation = "scrape"
      /\ truthy(call.url)
      /\ call.env.responses[1] \in {"200 rich", "200 bare"} ) =>
        LET text == call.env.page IN
        /\ Len(text) <= 2000 => ScrapedBody = text
        /\ Len(text) > 2000 =>
               ScrapedBody = SubSeq(text, 1, 2000) \o <<"... (truncated)">>
        /\ Len(ScrapedBody) <= 2000 + 1
        /\ \A i \in 1..Len(ScrapedBody) :
               ScrapedBody[i] = "... (truncated)" => i = 2000 + 1

\* A page of 2001 characters was scraped.
C19_Witness ==
    /\ call.tool = "WebResearchTool"
    /\ call.operation = "scrape"
    /\ Len(call.env.page) = 2001
    /\ Len(ScrapedBody) = 2001
    /\ ScrapedBody[2001] = "... (truncated)"
    /\ ScrapedBody[2000] = call.env.page[2000]

StubArtifact(name, d, ctx) == Stub(Render(Task(name), d, ctx))

\* C21: two runs of the pipeline in the same output directory are not kept
\* apart.  While the other process is inside kickoff, a step of this one that
\* is in flight can succeed, and when it does its artifact replaces whatever
\* the destination file held, the other run's artifact included, and no
\* other file changes.
C21_Race ==
    /\ []((pc = "kickoff" /\ state = "Running" /\ step_index \in inflight)
              => ENABLED StepSucceed)
    /\ [][ (Len(artifacts') = Len(artifacts) + 1 /\ peer' = peer) =>
               LET f == output_file(StepNames[step_index])
               IN  /\ f \in DOMAIN files'
                   /\ files'[f] = result'
                   /\ DOMAIN files' = DOMAIN files \cup {f}
                   /\ \A p \in DOMAIN files \ {f} : files'[p] = files[p] ]_vars

\* Both runs are inside kickoff and past their second step, each on its own
\* description, and the directory holds the first file as one of them wrote
\* it and the second file as the other wrote it.
C21_Witness ==
    /\ proc = "main" /\ pc = "kickoff" /\ Len(artifacts) >= 2
    /\ peer.proc = "main" /\ peer.pc = "kickoff" /\ Len(peer.artifacts) >= 2
    /\ seed = 0 /\ peer.seed = 0
    /\ Len(description) # Len(peer.description)
    /\ files[output_file("analyze_project")]
           = StubArtifact("analyze_project", description, <<>>)
    /\ files[output_file("design_architecture")]
           = StubArtifact("design_architecture", peer.description,
                          peer.artifacts[1])

\* The steps of run_setup that write into the project directory.
GenerationSteps ==
    {"create_configuration_files", "create_agents_config",
     "create_tasks_config", "create_development_tools",
     "create_main_crew_file", "create_main_script",
     "create_examples_and_templates", "create_startup_script",
     "install_dependencies"}

\* The user was asked and answered 'y' or 'Y'.
Consented == setup.response \in {Some(<<"y">>), Some(<<"Y">>)}

\* C22: when the project directory existed at the prompt and the answer was
\* not 'y' or 'Y' (or no answer came), the setup has exited with code 1, the
\* directory is as it was when the setup started and no generation step has
\* run; a setup in which the directory existed and is no longer as it was
\* had the answer 'y' or 'Y'; and with that answer the directory is removed
\* and made anew, holding nothing but the directories of the structure.
C22_Consent ==
    /\ (setup.existed /\ ~Consented) =>
           /\ setup.pc = "exited"
           /\ setup.exit_code = 1
           /\ setup.tree = setup.tree0
           /\ Range(setup.ran) \cap GenerationSteps = {}
    /\ (setup.existed /\ setup.pc # "exited" /\ setup.tree # setup.tree0)
           => Consented
    /\ (setup.existed /\ Consented /\ setup.pc = "structured"
           /\ setup.ran[Len(setup.ran)] = "create_project_structure") =>
           /\ setup.tree.exists
           /\ DOMAIN setup.tree.nodes = directories

\* The project held an artifact of an earlier run when the setup asked; the
\* answer was "yes", and the setup has exited leaving the artifact there.
C22_Witness ==
    /\ setup.existed
    /\ setup.response = Some(<<"y", "e", "s">>)
    /\ setup.pc = "exited"
    /\ output_file("analyze_project") \in DOMAIN setup.tree.nodes

\* C23: in a custom workflow that reached kickoff both selections are
\* non-empty, the agents of the crew are the selected agents, and every
\* task of the crew, and the step in flight, has the persona the task
\* configuration names for it, whether that persona was selected or not.
C23_StaticPersona ==
    (proc = "run_custom_workflow" /\ pc = "kickoff") =>
        /\ selected_agents # <<>> /\ selected_tasks # <<>>
        /\ the_crew.agents = selected_agents
        /\ StepNames = selected_tasks
        /\ \A i \in 1..NSteps :
               the_crew.tasks[i].agent = tasks_config(StepNames[i]).agent
        /\ inflight # {} =>
               /\ prompt.task = StepNames[step_index]
               /\ prompt.agent = tasks_config(prompt.task).agent

\* The step in flight is executed by a persona that is not among the
\* selected agents.
C23_Witness ==
    /\ proc = "run_custom_workflow"
    /\ pc = "kickoff"
    /\ inflight # {}
    /\ prompt.agent = "business_analyst"
    /\ prompt.agent \notin Range(selected_agents)
    /\ prompt.agent \notin Range(the_crew.agents)

\* The names of the steps of the crew are pairwise distinct.
DistinctSteps == \A i, j \in 1..NSteps : StepNames[i] = StepNames[j] => i = j

\* C24: the crew of the full pipeline has exactly ten steps, the ten tasks
\* of the registry in order; every step of any crew has one persona, the one
\* the task configuration names, and one destination file; the destination
\* files of different tasks differ; and in a run whose steps are pairwise
\* distinct every artifact produced so far is still in its destination
\* file, untouched by the steps after it.
C24_Registry ==
    /\ (proc = "main" /\ pc = "kickoff") =>
           /\ NSteps = 10
           /\ StepNames = available_tasks
           /\ Cardinality(Destinations(NSteps)) = 10
    /\ \A i \in 1..NSteps :
           /\ the_crew.tasks[i].agent = tasks_config(StepNames[i]).agent
           /\ the_crew.tasks[i].agent \in Range(available_agents)
           /\ Cardinality(the_crew.tasks[i].outputs) = 1
    /\ \A i, j \in 1..NSteps :
           the_crew.tasks[i].outputs = the_crew.tasks[j].outputs
               => StepNames[i] = StepNames[j]
    /\ DistinctSteps =>
           \A j \in 1..Len(artifacts) :
               \A f \in the_crew.tasks[j].outputs :
                   f \in DOMAIN files /\ files[f] = artifacts[j]

\* The full pipeline has completed and the artifact of its first step is
\* still in its file after the nine steps that followed.
C24_Witness ==
    /\ proc = "main"
    /\ state = "Completed"
    /\ Len(artifacts) = 10
    /\ files["output/project_analysis.md"] = artifacts[1]
    /\ Cardinality(DOMAIN files) = 10

\* The destination files of the steps that have succeeded in this run.
Written == UNION {the_crew.tasks[j].outputs : j \in 1..Len(artifacts)}

\* C25: at every point of a run of main.py, in either mode, every file that
\* was in the output directory when the process was launched and is not the
\* destination file of a step that has succeeded in this run is still there
\* with the content it had, and the directory holds no file besides those
\* and the destination files of the steps that succeeded.
C25_Frame ==
    proc \in {"main", "run_custom_workflow"} =>
        /\ \A p \in DOMAIN files0 \ Written :
               p \in DOMAIN files /\ files[p] = files0[p]
        /\ DOMAIN files = DOMAIN files0 \cup Written

\* A custom run of one step has ended after a full run had left its ten
\* files: the step's file has a new content and the file of a step that was
\* not selected is as the full run left it.
C25_Witness ==
    /\ proc = "run_custom_workflow"
    /\ pc = "exited"
    /\ state = "Completed"
    /\ NSteps = 1
    /\ Cardinality(DOMAIN files0) = 10
    /\ files[output_file(StepNames[1])] # files0[output_file(StepNames[1])]
    /\ files["output/code_review.md"] = files0["output/code_review.md"]
    /\ "output/code_review.md" \notin Written

\* A full run failed at its first step after a full run had left its ten
\* files, and the ten files are as they were.
C25_WitnessFailed ==
    /\ proc = "main"
    /\ pc = "exited"
    /\ state = "Failed"
    /\ step_index = 1
    /\ Cardinality(DOMAIN files0) = 10
    /\ files = files0

\* The call is a clone that names a remote URL.
CloneWithUrl ==
    /\ call.operation = "clone"
    /\ call.remote_url # None
    /\ call.remote_url[1] # <<>>

\* C26: a call of the git adapter that is not a clone with a remote URL, on
\* a path that does not exist, returns the path-does-not-exist string with
\* the path, runs no subprocess and leaves the working directory as it was,
\* whatever the operation is (unknown ones included) and whether or not its
\* required argument was given; a clone with a remote URL runs git once,
\* whether the path exists or not.
C26_PathPrecedence ==
    call.tool = "GitTool" =>
        /\ (~CloneWithUrl /\ call.path # "." /\ call.path \notin DOMAIN disk0)
               => /\ outcome = [raised |-> FALSE,
                                value |-> <<"Path does not exist: ", call.path>>]
                  /\ subprocs = 0
                  /\ disk = disk0
        /\ CloneWithUrl
               => /\ subprocs = 1
                  /\ outcome.value[1] \in {"Git ", "Error executing Git "}
                  /\ outcome.value[2] = "clone"

\* A commit without a message on a path that does not exist was answered
\* with the path-does-not-exist string.
C26_Witness ==
    /\ call.tool = "GitTool"
    /\ call.operation = "commit"
    /\ call.message = None
    /\ call.path = "d"
    /\ "d" \notin DOMAIN disk0
    /\ outcome.value = <<"Path does not exist: ", "d">>

\* A clone with a remote URL into a path that did not exist succeeded.
C26_WitnessClone ==
    /\ call.tool = "GitTool"
    /\ CloneWithUrl
    /\ "d" \notin DOMAIN disk0
    /\ call.path = "d"
    /\ outcome.value[1] = "Git "
    /\ outcome.value[3] = " successful:\n"

\* The call of the file system adapter fails a validation: write_file has
\* no content, copy_file or move_file has no destination or a source that
\* does not exist, or read_file, list_dir, delete_file or delete_dir is
\* given a path that does not exist.
ValidationFailure ==
    /\ call.tool = "FileSystemTool"
    /\ \/ call.operation = "write_file" /\ call.content = None
       \/ /\ call.operation \in {"copy_file", "move_file"}
          /\ call.destination = None \/ call.path \notin DOMAIN disk0
       \/ /\ call.operation \in {"read_file", "list_dir", "delete_file",
                                   "delete_dir"}
          /\ call.path \notin DOMAIN disk0

\* The strings the file system adapter has for a validation failure.
ValidationStrings ==
    {"Content is required for write operation",
     "Destination is required for copy operation",
     "Destination is required for move operation",
     "Source file not found: ", "File not found: ", "Directory not found: "}

\* C27: a call of the file system adapter that fails a validation returns
\* the string of that failure and leaves the working directory exactly as
\* it was: no file, no destination and no parent directory is created and
\* nothing is removed.
C27_ValidationFrame ==
    ValidationFailure =>
        /\ ~outcome.raised
        /\ outcome.value[1] \in ValidationStrings
        /\ disk = disk0
        /\ subprocs = 0 /\ requests = 0

\* write_file without content on a path whose parent directory does not
\* exist: the parent directory has not been made.
C27_Witness ==
    /\ call.tool = "FileSystemTool"
    /\ call.operation = "write_file"
    /\ call.content = None
    /\ call.path = "d/f"
    /\ "d" \notin DOMAIN disk0
    /\ "d" \notin DOMAIN disk
    /\ outcome.value = <<"Content is required for write operation">>

\* move_file of a source that does not exist to a destination whose parent
\* directory does not exist, while the directory holds another file.
C27_WitnessMove ==
    /\ call.tool = "FileSystemTool"
    /\ call.operation = "move_file"
    /\ call.path = "d"
    /\ call.destination = Some("d/f")
    /\ DOMAIN disk0 = {"f"}
    /\ disk = disk0
    /\ outcome.value = <<"Source file not found: ", "d">>

\* What read_file returns for the path p in the working directory fs, when
\* the operating system does not refuse the read.
ReadFile(fs, p) ==
    FileSystemTool_run(fs, Call("FileSystemTool", "read_file", p, None, None,
                                None, None, None, "", <<>>, None, no_env),
                       no_env).value

\* The last call was a copy_file or a move_file, of a source that was a file
\* to a destination that is another path, and it reported success.
CopiedOrMoved ==
    /\ call.tool = "FileSystemTool"
    /\ call.operation \in {"copy_file", "move_file"}
    /\ call.destination # None
    /\ call.destination[1] # call.path
    /\ call.path \in DOMAIN disk0
    /\ disk0[call.path].kind = "file"
    /\ outcome.value[1] \in {"File copied from ", "File moved from "}

\* C28: after a copy_file that succeeded both paths exist, read_file returns
\* on both what it returned on the source before, and the source is
\* unchanged; after a move_file that succeeded the source does not exist and
\* read_file on the destination returns what it returned on the source
\* before; whatever the destination held is replaced.
C28_CopyMove ==
    CopiedOrMoved =>
        LET src == call.path
            dst == call.destination[1]
        IN  /\ dst \in DOMAIN disk
            /\ ReadFile(disk, dst) = ReadFile(disk0, src)
            /\ IF call.operation = "copy_file"
               THEN /\ src \in DOMAIN disk
                    /\ disk[src] = disk0[src]
                    /\ ReadFile(disk, src) = ReadFile(disk0, src)
               ELSE src \notin DOMAIN disk

\* The calls that escape C28: the destination is a directory, and the file
\* is put into it under the name of the source.
C28_IntoDirectory ==
    /\ call.destination[1] \in DOMAIN disk
    /\ disk[call.destination[1]].kind = "dir"
    /\ "d/f" \in DOMAIN disk
    /\ disk["d/f"] = disk0[call.path]

\* C28 holds for every destination that is not a directory.
C28_ExceptIntoDirectory == C28_CopyMove \/ (CopiedOrMoved /\ C28_IntoDirectory)

\* A file was copied over another file, and one was moved over another.
C28_ReplacedByCopy ==
    /\ CopiedOrMoved
    /\ call.operation = "copy_file"
    /\ call.destination[1] \in DOMAIN disk0
    /\ disk0[call.destination[1]].kind = "file"
    /\ disk0[call.destination[1]] # disk0[call.path]

\* The last call was a quality analysis of a regular file that the
\* operating system let the adapter read.
QualityAnalysed ==
    /\ call.tool = "CodeAnalysisTool"
    /\ call.operation = "quality"
    /\ call.path \in DOMAIN disk0
    /\ disk0[call.path].kind = "file"
    /\ ~call.env.fault

\* The lines of the file analysed, as the analysis reads them.
AnalysedLines == split_lines(decode(disk0[call.path].bytes))

\* The number a report gives after the label.
Reported(label) ==
    LET k == CHOOSE i \in 1..Len(outcome.value) : outcome.value[i] = label
    IN  outcome.value[k + 1]

\* C29: for every content of the file, the empty one included, the quality
\* analysis returns its report and not an error; no line is both blank and
\* a comment line; with total, blank, comment and code the numbers of the
\* report, total >= 1, blank + comment <= total and code = total - blank -
\* comment >= 0; and the ratio is a number from 0 to 100 percent.
C29_Counts ==
    QualityAnalysed =>
        LET lines == AnalysedLines
            blank == {i \in 1..Len(lines) : \A j \in 1..Len(lines[i]) :
                                                lines[i][j] = " "}
            comment == {i \in 1..Len(lines) :
                           \E j \in 1..Len(lines[i]) :
                               /\ lines[i][j] = "#"
                               /\ \A h \in 1..(j - 1) : lines[i][h] = " "}
            total == Len(lines)
            code == total - Cardinality(blank) - Cardinality(comment)
        IN  /\ ~outcome.raised
            /\ outcome.value[1] = "Code Quality Analysis for "
            /\ blank \cap comment = {}
            /\ total >= 1
            /\ Cardinality(blank) + Cardinality(comment) <= total
            /\ code >= 0
            /\ Reported("Total lines: ") = ToString(total)
            /\ Reported("Blank lines: ") = ToString(Cardinality(blank))
            /\ Reported("Comment lines: ") = ToString(Cardinality(comment))
            /\ Reported("Code lines: ") = ToString(code)
            /\ Reported("Comment ratio: ")
                   \in {ToString(t) : t \in 0..1000}

\* The empty file was analysed: one line, which is blank, no comment line,
\* no code line, a ratio of 0.0 percent.
C29_Witness ==
    /\ QualityAnalysed
    /\ disk0[call.path].bytes = <<>>
    /\ Reported("Total lines: ") = "1"
    /\ Reported("Blank lines: ") = "1"
    /\ Reported("Comment lines: ") = "0"
    /\ Reported("Code lines: ") = "0"
    /\ Reported("Comment ratio: ") = "0"

\* A file of a comment line, a blank line and a code line was analysed.
C29_WitnessMixed ==
    /\ QualityAnalysed
    /\ disk0[call.path].bytes = <<"#", "CR", "CR", "a">>
    /\ Reported("Total lines: ") = "3"
    /\ Reported("Blank lines: ") = "1"
    /\ Reported("Comment lines: ") = "1"
    /\ Reported("Code lines: ") = "1"
    /\ Reported("Comment ratio: ") = "333"

====
